---- MODULE Spec2Model ----
(***************************************************************************)
(* Model of src/throughput_test.py: the statistics registry                *)
(* (ThroughputStats over the global STATS), the stream-transport session   *)
(* handler (TCPThroughputServer) and the HTTP session handler              *)
(* (RobustThroughputHandler).  One worker thread runs per accepted         *)
(* connection; workers share only STATS, guarded by stats_manager.lock.    *)
(*                                                                         *)
(* Byte strings are sequences of one-character strings.  A session's peer  *)
(* is a script of segments it sends, after which (or before which) it may  *)
(* close the connection.                                                   *)
(***************************************************************************)
EXTENDS Integers, Sequences, FiniteSets, TLC

VARIABLES STATS,   \* the global STATS dict (lines 31-38)
          lock,    \* the set of threads holding stats_manager.lock (empty or one thread)
          clock,   \* the value time.time() returns
          was_reset, \* whether the operator has called reset_stats
          oper,    \* position of the operator thread calling reset_stats
          pc,      \* pc[s]: position of session worker s
          req,     \* req[s]: the HTTP request of session s (kind "tcp" for stream)
          peer,    \* peer[s]: segments the peer has yet to send, and whether it closed
          inbuf,   \* inbuf[s]: bytes received by the socket and not yet read
          loc,     \* loc[s]: local variables of the handler
          out,     \* out[s]: what the handler has written to the socket, in order
          hist     \* hist[s]: record of the calls the worker has made

vars == <<STATS, lock, clock, was_reset, oper, pc, req, peer, inbuf, loc, out, hist>>

None == "None"

\* thread id of the operator calling reset_stats; session workers are 1, 2, ...
Operator == 0

(***************************************************************************)
(* Bounds of the model.                                                    *)
(***************************************************************************)
NSessions == 2    \* concurrent sessions of the concurrent specification
MaxSize == 3      \* largest explicit payload size a request names
MaxChunk == 2     \* largest explicit chunk size a request names

(***************************************************************************)
(* Program constants.                                                      *)
(***************************************************************************)
DEFAULT_SIZE == 2097152
DEFAULT_CHUNK_SIZE == 8192
DEFAULT_UPLOAD_SIZE == 1024
COMMAND_RECV_SIZE == 1024
UPLOAD_RECV_SIZE == 8192

Min(a, b) == IF a < b THEN a ELSE b
Max(a, b) == IF a > b THEN a ELSE b

(***************************************************************************)
(* Text helpers: Python's str.strip, str.startswith, str.split, int and    *)
(* bytes.decode, over sequences of characters.                             *)
(***************************************************************************)
SP == " "
NL == "\n"
BadByte == "<FF>"      \* a byte that is not valid UTF-8
Whitespace == {" ", "\n", "\r", "\t"}
Digits == {"0", "1", "2", "3", "4", "5", "6", "7", "8", "9"}

THROUGHPUT == <<"T", "H", "R", "O", "U", "G", "H", "P", "U", "T">>
PING == <<"P", "I", "N", "G">>
UPLOAD == <<"U", "P", "L", "O", "A", "D">>

DigitVal(c) ==
  CASE c = "0" -> 0 [] c = "1" -> 1 [] c = "2" -> 2 [] c = "3" -> 3 [] c = "4" -> 4
    [] c = "5" -> 5 [] c = "6" -> 6 [] c = "7" -> 7 [] c = "8" -> 8 [] c = "9" -> 9

DigitChar(d) ==
  CASE d = 0 -> "0" [] d = 1 -> "1" [] d = 2 -> "2" [] d = 3 -> "3" [] d = 4 -> "4"
    [] d = 5 -> "5" [] d = 6 -> "6" [] d = 7 -> "7" [] d = 8 -> "8" [] d = 9 -> "9"

RECURSIVE lstrip(_)
lstrip(s) == IF s # <<>> /\ Head(s) \in Whitespace THEN lstrip(Tail(s)) ELSE s

RECURSIVE rstrip(_)
rstrip(s) ==
  IF s # <<>> /\ s[Len(s)] \in Whitespace THEN rstrip(SubSeq(s, 1, Len(s) - 1)) ELSE s

strip(s) == rstrip(lstrip(s))

startswith(s, prefix) == Len(s) >= Len(prefix) /\ SubSeq(s, 1, Len(prefix)) = prefix

\* str.split(): the maximal runs of characters that are not whitespace, in
\* order.  TokenStarts are the indices at which a run starts, TokenEnd the
\* index at which the run that starts at i ends.
TokenStarts(s) ==
  {i \in 1..Len(s) : s[i] \notin Whitespace /\ (i = 1 \/ s[i - 1] \in Whitespace)}

TokenEnd(s, i) ==
  CHOOSE j \in i..Len(s) :
    /\ j = Len(s) \/ s[j + 1] \in Whitespace
    /\ \A m \in i..j : s[m] \notin Whitespace

split(s) ==
  LET starts == TokenStarts(s)
      nth(n) == CHOOSE i \in starts : Cardinality({j \in starts : j < i}) = n - 1
  IN [n \in 1..Cardinality(starts) |-> SubSeq(s, nth(n), TokenEnd(s, nth(n)))]

\* bytes.decode('utf-8') raises UnicodeDecodeError on an invalid byte
DecodeOk(bytes) == \A k \in 1..Len(bytes) : bytes[k] # BadByte

RECURSIVE DigitsVal(_)
DigitsVal(d) ==
  IF d = <<>> THEN 0
  ELSE 10 * DigitsVal(SubSeq(d, 1, Len(d) - 1)) + DigitVal(d[Len(d)])

Unsigned(tok) == IF tok # <<>> /\ Head(tok) \in {"+", "-"} THEN Tail(tok) ELSE tok

\* int(tok) succeeds on an optional sign followed by at least one digit
IntOk(tok) ==
  /\ Unsigned(tok) # <<>>
  /\ \A k \in 1..Len(Unsigned(tok)) : Unsigned(tok)[k] \in Digits

int(tok) ==
  IF Head(tok) = "-" THEN 0 - DigitsVal(Unsigned(tok)) ELSE DigitsVal(Unsigned(tok))

\* float(tok): over the characters used here (sign, digits, letters) float
\* accepts exactly the tokens int accepts
FloatOk(tok) == IntOk(tok)
float(tok) == int(tok)

\* decimal rendering of a small integer, used to build the peers' commands
RECURSIVE DecDigits(_)
DecDigits(n) ==
  IF n < 10 THEN <<DigitChar(n)>> ELSE DecDigits(n \div 10) \o <<DigitChar(n % 10)>>

Dec(n) == IF n < 0 THEN <<"-">> \o DecDigits(0 - n) ELSE DecDigits(n)

\* A byte string the handlers generate or receive.  Bytes(b) is the concrete
\* string b.  Urandom(id, n) stands for the n bytes one os.urandom(n) call of
\* session id returned: they are not materialised (n is 2 MiB by default).
Bytes(b) == [src |-> "bytes", id |-> 0, len |-> Len(b), bytes |-> b]
Urandom(id, n) == [src |-> "urandom", id |-> id, len |-> n, bytes |-> <<>>]

\* hashlib.sha256(x).hexdigest(): lower-case hex, idealised as an injective
\* function of the byte string x
sha256(x) == [hex |-> "lower", of |-> x]

(***************************************************************************)
(* The statistics registry: ThroughputStats over STATS.                    *)
(***************************************************************************)
reset_stats_epoch(t) ==
  [active_connections |-> 0, total_connections |-> 0, total_bytes_sent |-> 0,
   start_time |-> 0, tcp_connections |-> 0, http_connections |-> 0]

reset_stats(t) ==
  [active_connections |-> 0, total_connections |-> 0, total_bytes_sent |-> 0,
   start_time |-> t, tcp_connections |-> 0, http_connections |-> 0]

increment_connection_total_only(S, protocol) ==
  [S EXCEPT !.active_connections = @ + 1, !.total_connections = @ + 1]

increment_connection(S, protocol) ==
  IF protocol = "tcp"
  THEN [S EXCEPT !.active_connections = @ + 1, !.total_connections = @ + 1,
                 !.tcp_connections = @ + 1]
  ELSE [S EXCEPT !.active_connections = @ + 1, !.total_connections = @ + 1,
                 !.http_connections = @ + 1]

decrement_connection_omitted(S) == S

decrement_connection_nofloor(S) ==
  [S EXCEPT !.active_connections = @ - 1]

decrement_connection(S) ==
  [S EXCEPT !.active_connections = Max(0, @ - 1)]

add_bytes(S, bytes_count) ==
  [S EXCEPT !.total_bytes_sent = @ + bytes_count]

\* get_stats returns STATS with uptime and the average; the average is kept
\* as the pair <<total_bytes_sent, uptime>> of the division it performs
get_stats_unguarded(S, t) ==
  [stats |-> S, uptime |-> t - S.start_time,
   avg_bytes_per_second |-> <<S.total_bytes_sent, t - S.start_time>>]

get_stats(S, t) ==
  [stats |-> S, uptime |-> t - S.start_time,
   avg_bytes_per_second |->
     IF t - S.start_time > 0 THEN <<S.total_bytes_sent, t - S.start_time>> ELSE <<0, 1>>]

\* `with self.lock:` releases the lock when the block is left
lock_release_kept(holder) == {holder}

lock_release(holder) == {}

(***************************************************************************)
(* Sessions.                                                               *)
(***************************************************************************)
Sessions == DOMAIN pc

Loc0 ==
  [command |-> <<>>, flow |-> None, size |-> 0, chunk_size |-> 0, i |-> 0,
   bytes_sent |-> 0, expected_size |-> 0, received_data |-> <<>>, arg |-> 0,
   raw |-> <<>>, data |-> Bytes(<<>>), headers |-> <<>>, body |-> [t |-> None]]

\* hist[s]: calls of increment_connection / decrement_connection, whether
\* the decrement found active_connections at 0, the arguments of the add_bytes
\* calls, the phases of the stream handler entered, the exception that ended
\* the session body, whether the handler closed the socket, the payload
\* bytes the session wrote or read, and whether the session was between its
\* increment and its decrement when reset_stats last ran
Hist0 ==
  [incs |-> 0, decs |-> 0, floored |-> FALSE, adds |-> <<>>, phases |-> <<>>, exc |-> None,
   closed |-> FALSE, moved |-> 0, at_reset |-> FALSE]

\* the phase of the stream state machine a position of the worker belongs to
PhaseOf(p, flow) ==
  CASE p \in {"idle", "increment_connection", "increment_connection_locked"} -> None
    [] p = "recv_command" -> "AWAIT_COMMAND"
    [] p = "dispatch" -> "DISPATCH"
    [] p \in {"close", "decrement_connection", "decrement_connection_locked", "done"} -> "CLOSE"
    [] OTHER -> flow

\* entering a position of another phase is recorded
Track(h, kind, p, flow) ==
  IF kind = "tcp" /\ PhaseOf(p, flow) # None
     /\ (h.phases = <<>> \/ h.phases[Len(h.phases)] # PhaseOf(p, flow))
  THEN [h EXCEPT !.phases = Append(@, PhaseOf(p, flow))]
  ELSE h

TcpReq == [kind |-> "tcp"]

Ev(t, a) == [t |-> t, a |-> a]

SessionStep(s, p, l, o, h) ==
  /\ pc' = [pc EXCEPT ![s] = p]
  /\ loc' = [loc EXCEPT ![s] = l]
  /\ out' = [out EXCEPT ![s] = o]
  /\ hist' = [hist EXCEPT ![s] = Track(h, req[s].kind, p, l.flow)]

\* socket.recv(n): the bytes available, at most n of them; the empty string
\* once the peer has shut the connection down; ConnectionResetError if the
\* peer reset it; blocks (no outcome) while nothing has arrived on an open
\* connection
RecvOutcomes(s, n) ==
  (IF inbuf[s] # <<>>
   THEN {[raised |-> FALSE, data |-> SubSeq(inbuf[s], 1, Min(n, Len(inbuf[s])))]}
   ELSE IF peer[s].closed /\ ~peer[s].rst THEN {[raised |-> FALSE, data |-> <<>>]} ELSE {})
  \cup (IF peer[s].closed /\ peer[s].rst THEN {[raised |-> TRUE, data |-> <<>>]} ELSE {})

Consume(s, data) ==
  inbuf' = [inbuf EXCEPT ![s] = SubSeq(@, Len(data) + 1, Len(@))]

\* socket.send / wfile.write: succeeds, or raises BrokenPipeError /
\* ConnectionResetError once the peer has closed
SendOutcomes(s) == IF peer[s].closed THEN {TRUE, FALSE} ELSE {TRUE}

(***************************************************************************)
(* The peer of a session.                                                  *)
(***************************************************************************)
PeerSend(s) ==
  /\ pc[s] \notin {"idle", "done"}
  /\ ~peer[s].closed
  /\ peer[s].segs # <<>>
  /\ inbuf' = [inbuf EXCEPT ![s] = @ \o Head(peer[s].segs)]
  /\ peer' = [peer EXCEPT ![s].segs = Tail(@)]
  /\ UNCHANGED <<STATS, lock, clock, was_reset, oper, pc, req, loc, out, hist>>

PeerClose(s) ==
  /\ pc[s] \notin {"idle", "done"}
  /\ ~peer[s].closed
  /\ \E rst \in BOOLEAN : peer' = [peer EXCEPT ![s].closed = TRUE, ![s].rst = rst]
  /\ UNCHANGED <<STATS, lock, clock, was_reset, oper, pc, req, inbuf, loc, out, hist>>

(***************************************************************************)
(* Calls into the registry.  A call first acquires stats_manager.lock,     *)
(* then runs the body and releases the lock.                               *)
(***************************************************************************)
RegistryCalls == {"increment_connection", "decrement_connection", "add_bytes", "get_stats"}

Locked(p) ==
  CASE p = "increment_connection" -> "increment_connection_locked"
    [] p = "decrement_connection" -> "decrement_connection_locked"
    [] p = "add_bytes" -> "add_bytes_locked"
    [] p = "get_stats" -> "get_stats_locked"

LockedPcs == {Locked(p) : p \in RegistryCalls}

lock_acquire(s) ==
  /\ pc[s] \in RegistryCalls
  /\ lock = {}
  /\ lock' = {s}
  /\ pc' = [pc EXCEPT ![s] = Locked(pc[s])]
  /\ UNCHANGED <<STATS, clock, was_reset, oper, req, peer, inbuf, loc, out, hist>>

\* where the worker continues after increment_connection returns
AfterIncrement(kind) ==
  CASE kind = "tcp" -> "recv_command"
    [] kind = "GET" -> "handle_get"
    [] kind = "POST" -> "handle_post"

call_increment_connection(s) ==
  /\ pc[s] = "increment_connection_locked"
  /\ lock = {s}
  /\ STATS' = increment_connection(STATS, IF req[s].kind = "tcp" THEN "tcp" ELSE "http")
  /\ lock' = lock_release(s)
  /\ SessionStep(s, AfterIncrement(req[s].kind), loc[s], out[s],
                 [hist[s] EXCEPT !.incs = @ + 1])
  /\ UNCHANGED <<clock, was_reset, oper, req, peer, inbuf>>

\* the finally clause of _handle_tcp_client / do_GET / do_POST: where control
\* goes when the session body ends, normally or by an exception
handle_tcp_client_no_finally == "done"

handle_tcp_client_again == "recv_command"

handle_tcp_client_finally == "close"
do_GET_finally == "decrement_connection"
do_POST_finally == "decrement_connection"

call_decrement_connection(s) ==
  /\ pc[s] = "decrement_connection_locked"
  /\ lock = {s}
  /\ STATS' = decrement_connection(STATS)
  /\ lock' = lock_release(s)
  /\ SessionStep(s, "done", loc[s], out[s], [hist[s] EXCEPT !.decs = @ + 1, !.floored = (STATS.active_connections = 0)])
  /\ UNCHANGED <<clock, was_reset, oper, req, peer, inbuf>>

\* where the worker continues after add_bytes returns
AfterAddBytes(kind) ==
  CASE kind = "tcp" -> handle_tcp_client_finally
    [] kind = "GET" -> do_GET_finally
    [] kind = "POST" -> "write_body"

call_add_bytes(s) ==
  /\ pc[s] = "add_bytes_locked"
  /\ lock = {s}
  /\ STATS' = add_bytes(STATS, loc[s].arg)
  /\ lock' = lock_release(s)
  /\ SessionStep(s, AfterAddBytes(req[s].kind), loc[s], out[s],
                 [hist[s] EXCEPT !.adds = Append(@, loc[s].arg)])
  /\ UNCHANGED <<clock, was_reset, oper, req, peer, inbuf>>

\* the operator (or a test) calls reset_stats
reset_acquire ==
  /\ oper = "idle"
  /\ lock = {}
  /\ lock' = {Operator}
  /\ oper' = "reset_stats_locked"
  /\ UNCHANGED <<STATS, clock, was_reset, pc, req, peer, inbuf, loc, out, hist>>

call_reset_stats ==
  /\ oper = "reset_stats_locked"
  /\ lock = {Operator}
  /\ STATS' = reset_stats(clock)
  /\ lock' = lock_release(Operator)
  /\ oper' = "idle"
  /\ was_reset' = TRUE
  /\ hist' = [s \in Sessions |->
               [hist[s] EXCEPT !.at_reset = (hist[s].incs = 1 /\ hist[s].decs = 0)]]
  /\ UNCHANGED <<clock, pc, req, peer, inbuf, loc, out>>

(***************************************************************************)
(* Stream transport: TCPThroughputServer.                                  *)
(***************************************************************************)
\* an exception raised inside the try block of _handle_tcp_client: it is
\* printed and the finally clause runs
TcpRaise(s, e, o) ==
  SessionStep(s, handle_tcp_client_finally, loc[s], o, [hist[s] EXCEPT !.exc = e])

\* the flow returned normally
TcpReturn(s, l, o, h) ==
  SessionStep(s, handle_tcp_client_finally, l, o, h)

\* accept() and the start of the worker thread
tcp_accept(s, scripts) ==
  /\ pc[s] = "idle"
  /\ \E script \in scripts : peer' = [peer EXCEPT ![s] = [segs |-> script, closed |-> FALSE, rst |-> FALSE]]
  /\ req' = [req EXCEPT ![s] = TcpReq]
  /\ pc' = [pc EXCEPT ![s] = "increment_connection"]
  /\ UNCHANGED <<STATS, lock, clock, was_reset, oper, inbuf, loc, out, hist>>

\* command = client_socket.recv(1024).decode('utf-8').strip()
tcp_recv_command(s) ==
  /\ pc[s] = "recv_command"
  /\ \E r \in RecvOutcomes(s, COMMAND_RECV_SIZE) :
       /\ Consume(s, r.data)
       /\ IF r.raised THEN TcpRaise(s, "ConnectionResetError", out[s])
          ELSE IF ~DecodeOk(r.data)
          THEN SessionStep(s, handle_tcp_client_finally, [loc[s] EXCEPT !.raw = r.data],
                           out[s], [hist[s] EXCEPT !.exc = "UnicodeDecodeError"])
          ELSE SessionStep(s, "dispatch",
                           [loc[s] EXCEPT !.raw = r.data, !.command = strip(r.data)],
                           out[s], hist[s])
  /\ UNCHANGED <<STATS, lock, clock, was_reset, oper, req, peer>>

Dispatch(command) ==
  IF startswith(command, THROUGHPUT) THEN "THROUGHPUT"
  ELSE IF startswith(command, PING) THEN "PING"
  ELSE IF startswith(command, UPLOAD) THEN "UPLOAD"
  ELSE "ERROR"

FlowEntry(flow) ==
  CASE flow = "THROUGHPUT" -> "throughput_start"
    [] flow = "PING" -> "ping"
    [] flow = "UPLOAD" -> "upload_start"
    [] flow = "ERROR" -> "send_error"

tcp_dispatch(s) ==
  /\ pc[s] = "dispatch"
  /\ LET flow == Dispatch(loc[s].command)
     IN SessionStep(s, FlowEntry(flow), [loc[s] EXCEPT !.flow = flow], out[s], hist[s])
  /\ UNCHANGED <<STATS, lock, clock, was_reset, oper, req, peer, inbuf>>

\* client_socket.send(b'ERROR: Unknown command\n')
tcp_send_error(s) ==
  /\ pc[s] = "send_error"
  /\ \E ok \in SendOutcomes(s) :
       IF ok THEN TcpReturn(s, loc[s], Append(out[s], Ev("ERROR: Unknown command", <<>>)), hist[s])
       ELSE TcpRaise(s, "BrokenPipeError", out[s])
  /\ UNCHANGED <<STATS, lock, clock, was_reset, oper, req, peer, inbuf>>

\* _handle_tcp_throughput: parse the command and send the header
tcp_throughput_start(s) ==
  /\ pc[s] = "throughput_start"
  /\ LET parts == split(loc[s].command)
         size_ok == Len(parts) > 1 => IntOk(parts[2])
         chunk_ok == Len(parts) > 2 => IntOk(parts[3])
         size == IF Len(parts) > 1 THEN int(parts[2]) ELSE DEFAULT_SIZE
         chunk_size == IF Len(parts) > 2 THEN int(parts[3]) ELSE DEFAULT_CHUNK_SIZE
     IN IF ~size_ok \/ ~chunk_ok THEN TcpRaise(s, "ValueError", out[s])
        ELSE \E ok \in SendOutcomes(s) :
               IF ok
               THEN SessionStep(s, "throughput_hash",
                                [loc[s] EXCEPT !.size = size, !.chunk_size = chunk_size],
                                Append(out[s], Ev("THROUGHPUT_START", <<size, chunk_size, clock>>)),
                                hist[s])
               ELSE TcpRaise(s, "BrokenPipeError", out[s])
  /\ UNCHANGED <<STATS, lock, clock, was_reset, oper, req, peer, inbuf>>

\* data = os.urandom(size); the hash line
tcp_throughput_hash(s) ==
  /\ pc[s] = "throughput_hash"
  /\ IF loc[s].size < 0 THEN TcpRaise(s, "ValueError", out[s])
     ELSE \E ok \in SendOutcomes(s) :
            IF ok
            THEN SessionStep(s, "throughput_loop",
                             [loc[s] EXCEPT !.i = 0, !.bytes_sent = 0,
                                            !.data = Urandom(s, loc[s].size)],
                             Append(out[s], Ev("HASH", sha256(Urandom(s, loc[s].size)))),
                             hist[s])
            ELSE TcpRaise(s, "BrokenPipeError", out[s])
  /\ UNCHANGED <<STATS, lock, clock, was_reset, oper, req, peer, inbuf>>

\* range(0, len(data), chunk_size) raises ValueError for a zero step
tcp_throughput_range_error(s) ==
  /\ pc[s] = "throughput_loop"
  /\ loc[s].chunk_size = 0
  /\ TcpRaise(s, "ValueError", out[s])
  /\ UNCHANGED <<STATS, lock, clock, was_reset, oper, req, peer, inbuf>>

\* one iteration of the chunk loop: send data[i:i + chunk_size]
tcp_throughput_send_chunk(s) ==
  /\ pc[s] = "throughput_loop"
  /\ loc[s].chunk_size > 0
  /\ loc[s].i < loc[s].data.len
  /\ LET n == Min(loc[s].chunk_size, loc[s].data.len - loc[s].i)
     IN \E ok \in SendOutcomes(s) :
          IF ok
          THEN SessionStep(s, "throughput_loop",
                           [loc[s] EXCEPT !.i = @ + loc[s].chunk_size, !.bytes_sent = @ + n],
                           Append(out[s], Ev("DATA", <<loc[s].i, loc[s].i + n>>)),
                           [hist[s] EXCEPT !.moved = @ + n])
          ELSE TcpRaise(s, "BrokenPipeError", out[s])
  /\ UNCHANGED <<STATS, lock, clock, was_reset, oper, req, peer, inbuf>>

\* the range is exhausted: send the completion marker, then add_bytes(bytes_sent)
tcp_throughput_end(s) ==
  /\ pc[s] = "throughput_loop"
  /\ loc[s].chunk_size # 0
  /\ loc[s].chunk_size < 0 \/ loc[s].i >= loc[s].data.len
  /\ \E ok \in SendOutcomes(s) :
       IF ok
       THEN SessionStep(s, "add_bytes", [loc[s] EXCEPT !.arg = loc[s].bytes_sent],
                        Append(out[s], Ev("THROUGHPUT_END", <<>>)), hist[s])
       ELSE TcpRaise(s, "BrokenPipeError", out[s])
  /\ UNCHANGED <<STATS, lock, clock, was_reset, oper, req, peer, inbuf>>

\* client_timestamp of _handle_tcp_ping: the token of the command, or a
\* reading of the clock
ping_client_timestamp_now(parts, now) == now

ping_client_timestamp(parts, now) == IF Len(parts) > 1 THEN float(parts[2]) ELSE now

\* _handle_tcp_ping: time.time() is read for the client timestamp when the
\* command has none, and read again for the server timestamp; the clock may
\* have advanced between the two readings
tcp_ping(s) ==
  /\ pc[s] = "ping"
  /\ LET parts == split(loc[s].command)
     IN IF Len(parts) > 1 /\ ~FloatOk(parts[2])
        THEN TcpRaise(s, "ValueError", out[s]) /\ UNCHANGED clock
        ELSE \E elapsed \in {0, 1} :
               LET client_timestamp == ping_client_timestamp(parts, clock)
                   server_timestamp == clock + elapsed
               IN /\ clock' = server_timestamp
                  /\ \E ok \in SendOutcomes(s) :
                       IF ok
                       THEN TcpReturn(s, loc[s],
                                      Append(out[s],
                                             Ev("PONG", <<client_timestamp, server_timestamp>>)),
                                      hist[s])
                       ELSE TcpRaise(s, "BrokenPipeError", out[s])
  /\ UNCHANGED <<STATS, lock, was_reset, oper, req, peer, inbuf>>

\* _handle_tcp_upload: parse the command and send the ready signal
tcp_upload_start(s) ==
  /\ pc[s] = "upload_start"
  /\ LET parts == split(loc[s].command)
         expected_size == IF Len(parts) > 1 THEN int(parts[2]) ELSE DEFAULT_UPLOAD_SIZE
     IN IF Len(parts) > 1 /\ ~IntOk(parts[2]) THEN TcpRaise(s, "ValueError", out[s])
        ELSE \E ok \in SendOutcomes(s) :
               IF ok
               THEN SessionStep(s, IF 0 < expected_size THEN "upload_loop" ELSE "upload_reply",
                                [loc[s] EXCEPT !.expected_size = expected_size,
                                               !.received_data = <<>>],
                                Append(out[s], Ev("READY", <<>>)), hist[s])
               ELSE TcpRaise(s, "BrokenPipeError", out[s])
  /\ UNCHANGED <<STATS, lock, clock, was_reset, oper, req, peer, inbuf>>

\* the loop ends on an empty chunk
upload_break_never(chunk) == FALSE

upload_break(chunk) == chunk = <<>>

\* the size asked of recv: min(8192, expected_size - len(received_data))
upload_recv_size_unclipped(expected_size, received) == UPLOAD_RECV_SIZE

upload_recv_size(expected_size, received) ==
  Min(UPLOAD_RECV_SIZE, expected_size - received)

\* one iteration of the receive loop
tcp_upload_recv(s) ==
  /\ pc[s] = "upload_loop"
  /\ \E r \in RecvOutcomes(s, upload_recv_size(loc[s].expected_size,
                                               Len(loc[s].received_data))) :
       /\ Consume(s, r.data)
       /\ IF r.raised THEN TcpRaise(s, "ConnectionResetError", out[s])
          ELSE LET received_data == loc[s].received_data \o r.data
               IN SessionStep(s,
                              IF upload_break(r.data) \/ Len(received_data) >= loc[s].expected_size
                              THEN "upload_reply" ELSE "upload_loop",
                              [loc[s] EXCEPT !.received_data = received_data], out[s],
                              [hist[s] EXCEPT !.moved = @ + Len(r.data)])
  /\ UNCHANGED <<STATS, lock, clock, was_reset, oper, req, peer>>

\* response = f"UPLOAD_COMPLETE {len(received_data)} {data_hash}\n"
upload_response_expected(expected_size, received_data) ==
  Ev("UPLOAD_COMPLETE", <<expected_size, sha256(Bytes(received_data))>>)

upload_response(expected_size, received_data) ==
  Ev("UPLOAD_COMPLETE", <<Len(received_data), sha256(Bytes(received_data))>>)

\* the hash of what was received and the completion line, then add_bytes
tcp_upload_reply(s) ==
  /\ pc[s] = "upload_reply"
  /\ \E ok \in SendOutcomes(s) :
       IF ok
       THEN SessionStep(s, "add_bytes", [loc[s] EXCEPT !.arg = Len(loc[s].received_data)],
                        Append(out[s], upload_response(loc[s].expected_size,
                                                       loc[s].received_data)),
                        hist[s])
       ELSE TcpRaise(s, "BrokenPipeError", out[s])
  /\ UNCHANGED <<STATS, lock, clock, was_reset, oper, req, peer, inbuf>>

\* finally: client_socket.close(), then decrement_connection
tcp_close(s) ==
  /\ pc[s] = "close"
  /\ req[s].kind = "tcp"
  /\ SessionStep(s, "decrement_connection", loc[s], out[s], [hist[s] EXCEPT !.closed = TRUE])
  /\ UNCHANGED <<STATS, lock, clock, was_reset, oper, req, peer, inbuf>>

(***************************************************************************)
(* HTTP transport: RobustThroughputHandler.  A request arrives parsed: a   *)
(* GET with its path and query parameters (each a list of values, as       *)
(* parse_qs returns them), a POST with its Content-Length and body.        *)
(***************************************************************************)
\* a header the handler buffered, and a value of a JSON document
H(k, v) == [k |-> k, v |-> v]

\* A field of the JSON object: ty is the JSON type of its value ("absent" when
\* the key is missing) and v the value.  The fields type and test_type carry
\* names, data carries text, hash a digest, size and timestamp numbers; a value
\* of another JSON type keeps only its ty.
J(ty, v) == [ty |-> ty, v |-> v]
NoName == J("absent", "")
NoText == J("absent", <<>>)
NoHash == J("absent", [hex |-> "empty", of |-> Bytes(<<>>)])
NoNumber == J("absent", 0)

\* dict.get(key, default) on the parsed query and on the JSON object
QueryGet(values, default) == IF values = <<>> THEN default ELSE values[1]
JsonGet(field, default) == IF field.ty = "absent" THEN default ELSE field

\* a character outside ASCII, two bytes in UTF-8
NonAscii == "U+00E9"
Utf8(c) == IF c = NonAscii THEN <<"<C3>", "<A9>">> ELSE <<c>>

RECURSIVE encode(_)
encode(str) == IF str = <<>> THEN <<>> ELSE Utf8(Head(str)) \o encode(Tail(str))

\* str.lower() of the values the hash parameter takes here
lower_omitted(str) == str

lower(str) == IF str \in {"True", "TRUE", "true"} THEN "true" ELSE str

PATTERN ==
  <<"T", "H", "R", "O", "U", "G", "H", "P", "U", "T", "_", "T", "E", "S", "T", "_",
    "P", "A", "T", "T", "E", "R", "N", "_">>

\* bytes * n: n copies, the empty string for n <= 0
RECURSIVE Repeat(_, _)
Repeat(b, n) == IF n <= 0 THEN <<>> ELSE b \o Repeat(b, n - 1)

\* a generator that keeps a cursor into the marker across calls
generate_pattern_data_cursor(size) ==
  LET k == STATS.total_connections
      n == IF size >= 0 THEN size ELSE size % Len(PATTERN)
  IN [i \in 1..n |-> PATTERN[((i - 1 + k) % Len(PATTERN)) + 1]]

generate_pattern_data_full_only(size) == Repeat(PATTERN, size \div Len(PATTERN))

generate_pattern_data(size) ==
  LET pattern_len == Len(PATTERN)
      full_patterns == size \div pattern_len
      remainder == size % pattern_len
      data == Repeat(PATTERN, full_patterns)
  IN IF remainder > 0 THEN data \o SubSeq(PATTERN, 1, remainder) ELSE data

\* send_response(200) and the three CORS headers of _handle_get / do_OPTIONS
ResponseLine(code) == <<H("status", code), H("Server", None), H("Date", None)>>

CorsHeaders ==
  <<H("Access-Control-Allow-Origin", "*"),
    H("Access-Control-Allow-Methods", "GET, POST, OPTIONS"),
    H("Access-Control-Allow-Headers", "*")>>

\* send_error(code): a second response line and the headers of the error page
SendErrorHeaders(code) ==
  ResponseLine(code) \o <<H("Connection", "close"), H("Content-Type", "text/html;charset=utf-8"),
                          H("Content-Length", "error page")>>

\* an exception that leaves _handle_get / _handle_post: the finally clause runs
HttpFinally(kind) == IF kind = "GET" THEN do_GET_finally ELSE do_POST_finally

HttpRaise(s, e) ==
  SessionStep(s, HttpFinally(req[s].kind), loc[s], out[s], [hist[s] EXCEPT !.exc = e])

\* the request handler thread starts with a parsed request
http_request(s, requests) ==
  /\ pc[s] = "idle"
  /\ \E r \in requests :
       /\ req' = [req EXCEPT ![s] = r]
       /\ pc' = [pc EXCEPT ![s] = IF r.kind = "OPTIONS" THEN "handle_options"
                                  ELSE "increment_connection"]
  /\ peer' = [peer EXCEPT ![s] = [segs |-> <<>>, closed |-> FALSE, rst |-> FALSE]]
  /\ UNCHANGED <<STATS, lock, clock, was_reset, oper, inbuf, loc, out, hist>>

\* _handle_get, up to the end_headers call of the handler it dispatches to
http_handle_get(s) ==
  /\ pc[s] = "handle_get"
  /\ LET r == req[s]
         head == ResponseLine(200) \o CorsHeaders
         json == <<H("Content-Type", "application/json")>>
     IN IF r.path = "/stats"
        THEN SessionStep(s, "end_headers",
                         [loc[s] EXCEPT !.flow = "stats", !.headers = head \o json],
                         out[s], hist[s])
        ELSE IF r.path = "/ping"
        THEN SessionStep(s, "end_headers",
                         [loc[s] EXCEPT !.flow = "ping", !.headers = head \o json,
                                        !.body = [t |-> "pong", timestamp |-> clock]],
                         out[s], hist[s])
        ELSE IF r.path \in {"/test", "/"}
        THEN \* _handle_throughput_test
             LET size_s == QueryGet(r.size, <<"2", "0", "9", "7", "1", "5", "2">>)
                 chunk_s == QueryGet(r.chunk_size, <<"8", "1", "9", "2">>)
                 test_type == QueryGet(r.type, "download")
                 include_hash == lower(QueryGet(r.hash, "false")) = "true"
             IN IF ~IntOk(size_s) \/ ~IntOk(chunk_s) THEN HttpRaise(s, "ValueError")
                ELSE IF test_type # "pattern" /\ int(size_s) < 0 THEN HttpRaise(s, "ValueError")
                ELSE LET size == int(size_s)
                         data == IF test_type = "pattern"
                                 THEN Bytes(generate_pattern_data(size))
                                 ELSE Urandom(s, size)
                     IN SessionStep(s, "end_headers",
                                    [loc[s] EXCEPT
                                       !.flow = "test", !.size = size,
                                       !.chunk_size = int(chunk_s), !.data = data,
                                       !.i = 0, !.bytes_sent = 0,
                                       !.headers =
                                         head
                                         \o <<H("Content-Type", "application/octet-stream"),
                                              H("Content-Length", size),
                                              H("X-Test-Type", test_type)>>
                                         \o (IF include_hash
                                             THEN <<H("X-Data-Hash", sha256(data))>> ELSE <<>>)
                                         \o <<H("X-Chunk-Size", int(chunk_s)),
                                              H("X-Server-Time", clock)>>],
                                    out[s], hist[s])
        ELSE \* send_error(404, "Not Found")
             SessionStep(s, "end_headers",
                         [loc[s] EXCEPT !.flow = "not_found",
                                        !.headers = head \o SendErrorHeaders(404),
                                        !.body = [t |-> "error page", code |-> 404]],
                         out[s], hist[s])
  /\ UNCHANGED <<STATS, lock, clock, was_reset, oper, req, peer, inbuf>>

\* where each handler continues after end_headers
AfterHeaders_options_counted(flow) ==
  CASE flow = "stats" -> "get_stats"
    [] flow = "test" -> "test_loop"
    [] flow = "upload" -> "add_bytes"
    [] flow = "throughput_post" -> "post_generate"
    [] flow = "options" -> "decrement_connection"
    [] OTHER -> "write_body"

AfterHeaders(flow) ==
  CASE flow = "stats" -> "get_stats"
    [] flow = "test" -> "test_loop"
    [] flow = "upload" -> "add_bytes"
    [] flow = "throughput_post" -> "post_generate"
    [] flow = "options" -> "done"
    [] OTHER -> "write_body"

\* end_headers: the buffered headers are written to the socket
http_end_headers(s) ==
  /\ pc[s] = "end_headers"
  /\ \E ok \in SendOutcomes(s) :
       IF ok
       THEN SessionStep(s, AfterHeaders(loc[s].flow), [loc[s] EXCEPT !.headers = <<>>],
                        Append(out[s], Ev("HEADERS", loc[s].headers)), hist[s])
       ELSE IF req[s].kind = "OPTIONS"
       THEN SessionStep(s, "done", loc[s], out[s], [hist[s] EXCEPT !.exc = "BrokenPipeError"])
       ELSE HttpRaise(s, "BrokenPipeError")
  /\ UNCHANGED <<STATS, lock, clock, was_reset, oper, req, peer, inbuf>>

\* stats = stats_manager.get_stats()
call_get_stats(s) ==
  /\ pc[s] = "get_stats_locked"
  /\ lock = {s}
  /\ lock' = lock_release(s)
  /\ SessionStep(s, "write_body",
                 [loc[s] EXCEPT !.body = [t |-> "stats", stats |-> get_stats(STATS, clock)]],
                 out[s], hist[s])
  /\ UNCHANGED <<STATS, clock, was_reset, oper, req, peer, inbuf>>

\* self.wfile.write(<the response body>), the last statement of the handler
http_write_body(s) ==
  /\ pc[s] = "write_body"
  /\ \E ok \in SendOutcomes(s) :
       IF ok
       THEN SessionStep(s, HttpFinally(req[s].kind), loc[s],
                        Append(out[s], Ev("BODY", loc[s].body)),
                        [hist[s] EXCEPT !.moved = IF loc[s].flow = "throughput_post"
                                                  THEN @ + loc[s].data.len ELSE @])
       ELSE HttpRaise(s, "BrokenPipeError")
  /\ UNCHANGED <<STATS, lock, clock, was_reset, oper, req, peer, inbuf>>

\* range(0, len(data), chunk_size) raises ValueError for a zero step; the
\* except clause of the loop does not catch it
http_test_range_error(s) ==
  /\ pc[s] = "test_loop"
  /\ loc[s].chunk_size = 0
  /\ HttpRaise(s, "ValueError")
  /\ UNCHANGED <<STATS, lock, clock, was_reset, oper, req, peer, inbuf>>

\* len(data[i:i + chunk_size]) for 0 <= i < len(data): the slice stops at the
\* end of the data
chunk_len_unclipped(data_len, i, chunk_size) == chunk_size

chunk_len(data_len, i, chunk_size) == Min(i + chunk_size, data_len) - i

\* one iteration of the chunk loop; a failed write is caught and the handler
\* returns without add_bytes
http_test_send_chunk(s) ==
  /\ pc[s] = "test_loop"
  /\ loc[s].chunk_size > 0
  /\ loc[s].i < loc[s].data.len
  /\ LET n == chunk_len(loc[s].data.len, loc[s].i, loc[s].chunk_size)
     IN \E ok \in SendOutcomes(s) :
          IF ok
          THEN SessionStep(s, "test_loop",
                           [loc[s] EXCEPT !.i = @ + loc[s].chunk_size, !.bytes_sent = @ + n],
                           Append(out[s], Ev("DATA", <<loc[s].i, loc[s].i + n>>)),
                           [hist[s] EXCEPT !.moved = @ + n])
          ELSE SessionStep(s, do_GET_finally, loc[s], out[s], hist[s])
  /\ UNCHANGED <<STATS, lock, clock, was_reset, oper, req, peer, inbuf>>

\* the range is exhausted: stats_manager.add_bytes(bytes_sent)
http_test_done(s) ==
  /\ pc[s] = "test_loop"
  /\ loc[s].chunk_size # 0
  /\ loc[s].chunk_size < 0 \/ loc[s].i >= loc[s].data.len
  /\ SessionStep(s, "add_bytes", [loc[s] EXCEPT !.arg = loc[s].bytes_sent], out[s], hist[s])
  /\ UNCHANGED <<STATS, lock, clock, was_reset, oper, req, peer, inbuf>>

\* expected_hash == actual_hash: equality of the JSON value with the hex
\* string; a value that is not a string equals no string
hash_equal_ignore_case(expected_hash, actual_hash) ==
  expected_hash.ty = "str" /\ expected_hash.v.of = actual_hash.of

hash_equal(expected_hash, actual_hash) ==
  expected_hash.ty = "str" /\ expected_hash.v = actual_hash

\* _handle_post, up to the end_headers call of the handler it dispatches to
http_handle_post(s) ==
  /\ pc[s] = "handle_post"
  /\ LET r == req[s]
         body == IF r.content_length = <<>> THEN [json |-> "invalid"] ELSE r.body
         json == <<H("Content-Type", "application/json")>>
     IN IF r.content_length # <<>> /\ ~IntOk(r.content_length[1])
        THEN HttpRaise(s, "ValueError")
        ELSE IF body.json = "bad_utf8" THEN HttpRaise(s, "UnicodeDecodeError")
        ELSE IF body.json = "invalid"
        THEN \* send_error(400, "Invalid JSON")
             SessionStep(s, "end_headers",
                         [loc[s] EXCEPT !.flow = "bad_json", !.headers = SendErrorHeaders(400),
                                        !.body = [t |-> "error page", code |-> 400]],
                         out[s], hist[s])
        ELSE IF body.json = "array" THEN HttpRaise(s, "AttributeError")
        ELSE LET test_type == JsonGet(body.type, J("str", "throughput"))
                 is(name) == test_type.ty = "str" /\ test_type.v = name
             IN IF is("ping")
                THEN \* _handle_ping_test
                     SessionStep(s, "end_headers",
                                 [loc[s] EXCEPT
                                    !.flow = "ping_test", !.headers = json,
                                    !.body = [t |-> "pong",
                                              client_timestamp |->
                                                JsonGet(body.timestamp, J("float", clock)),
                                              server_timestamp |-> clock]],
                                 out[s], hist[s])
                ELSE IF is("upload")
                THEN \* _handle_upload_test
                     LET upload_data == JsonGet(body.data, J("str", <<>>))
                     IN IF upload_data.ty # "str" THEN HttpRaise(s, "TypeError")
                        ELSE SessionStep(s, "end_headers",
                                         [loc[s] EXCEPT
                                            !.flow = "upload", !.headers = json,
                                            !.data = Bytes(encode(upload_data.v)),
                                            !.arg = Len(upload_data.v),
                                            !.body = [t |-> "received",
                                                      received_bytes |-> Len(upload_data.v),
                                                      data_hash |->
                                                        sha256(Bytes(encode(upload_data.v)))]],
                                         out[s],
                                         [hist[s] EXCEPT
                                            !.moved = @ + Len(encode(upload_data.v))])
                ELSE IF is("data_integrity")
                THEN \* _handle_data_integrity_test
                     LET test_data == JsonGet(body.data, J("str", <<>>))
                         expected_hash == JsonGet(body.hash, J("str", NoHash.v))
                     IN IF test_data.ty # "str" THEN HttpRaise(s, "TypeError")
                        ELSE LET actual_hash == sha256(Bytes(encode(test_data.v)))
                             IN SessionStep(s, "end_headers",
                                            [loc[s] EXCEPT
                                               !.flow = "data_integrity", !.headers = json,
                                               !.body =
                                                 [t |-> "integrity",
                                                  expected_hash |-> expected_hash,
                                                  actual_hash |-> actual_hash,
                                                  data_integrity |->
                                                    hash_equal(expected_hash, actual_hash),
                                                  received_bytes |-> Len(test_data.v)]],
                                            out[s], hist[s])
                ELSE \* _handle_throughput_test_post, up to end_headers
                     SessionStep(s, "end_headers",
                                 [loc[s] EXCEPT !.flow = "throughput_post", !.headers = json],
                                 out[s], hist[s])
  /\ UNCHANGED <<STATS, lock, clock, was_reset, oper, req, peer, inbuf>>

\* _handle_throughput_test_post after end_headers: generate the data, build
\* the response, then add_bytes(size)
http_post_generate(s) ==
  /\ pc[s] = "post_generate"
  /\ LET size == JsonGet(req[s].body.size, J("int", DEFAULT_SIZE))
         test_type == JsonGet(req[s].body.test_type, J("str", "download"))
         pattern == test_type.ty = "str" /\ test_type.v = "pattern"
     IN IF size.ty # "int" THEN HttpRaise(s, "TypeError")
        ELSE IF ~pattern /\ size.v < 0 THEN HttpRaise(s, "ValueError")
        ELSE LET test_data == IF pattern THEN Bytes(generate_pattern_data(size.v))
                              ELSE Urandom(s, size.v)
             IN SessionStep(s, "add_bytes",
                            [loc[s] EXCEPT !.size = size.v, !.data = test_data, !.arg = size.v,
                                           !.body = [t |-> "throughput", size |-> size.v,
                                                     hash |-> sha256(test_data),
                                                     data |-> [hex |-> "lower", of |-> test_data]]],
                            out[s], hist[s])
  /\ UNCHANGED <<STATS, lock, clock, was_reset, oper, req, peer, inbuf>>

\* do_OPTIONS, up to end_headers
http_options(s) ==
  /\ pc[s] = "handle_options"
  /\ SessionStep(s, "end_headers",
                 [loc[s] EXCEPT !.flow = "options", !.headers = ResponseLine(200) \o CorsHeaders],
                 out[s], hist[s])
  /\ UNCHANGED <<STATS, lock, clock, was_reset, oper, req, peer, inbuf>>

(***************************************************************************)
(* What the peers of stream sessions send: a script is a sequence of       *)
(* segments, each a byte string.                                           *)
(***************************************************************************)
ThroughputCommands ==
  {THROUGHPUT \o <<NL>>, THROUGHPUT \o <<SP, "x", NL>>, THROUGHPUT \o <<SP, "1", SP, "x", NL>>}
  \cup {THROUGHPUT \o <<SP>> \o Dec(n) \o <<NL>> : n \in (0 - 1)..MaxSize}
  \cup {THROUGHPUT \o <<SP>> \o Dec(n) \o <<SP>> \o Dec(c) \o <<NL>> :
          n \in (0 - 1)..MaxSize, c \in (0 - 1)..MaxChunk}

PingCommands == {PING \o <<NL>>, PING \o <<SP, "5", NL>>, PING \o <<SP, "x", NL>>}

OtherCommands ==
  {<<"H", "E", "L", "L", "O", NL>>, <<BadByte, NL>>, <<NL>>,
   <<SP>> \o THROUGHPUT \o <<SP, "1", SP, "1", NL>>}

UploadPayloads ==
  {<<>>, << <<"a">> >>, << <<"a", "b">> >>, << <<"a">>, <<"b", "c">> >>,
   << <<"a", "b", "c", "d">> >>}

UploadScripts ==
  {<<UPLOAD \o <<SP>> \o Dec(n) \o <<NL>>>> \o p : n \in (0 - 1)..MaxSize, p \in UploadPayloads}
  \cup {<<UPLOAD \o <<NL>>, <<"a", "b">>>>, <<UPLOAD \o <<SP, "x", NL>>>>,
        <<UPLOAD \o <<SP, "2", NL, "a", "b">>>>}

StreamScripts ==
  {<<c>> : c \in ThroughputCommands \cup PingCommands \cup OtherCommands}
  \cup UploadScripts
  \cup {<<>>, <<<<"T", "H", "R">>, <<"O", "U", "G", "H", "P", "U", "T", SP, "1", SP, "1", NL>>>>}

(***************************************************************************)
(* The HTTP requests clients send.                                         *)
(***************************************************************************)
Get(path, size, chunk_size, type, hash) ==
  [kind |-> "GET", path |-> path, size |-> size, chunk_size |-> chunk_size,
   type |-> type, hash |-> hash]

Path(path) == Get(path, <<>>, <<>>, <<>>, <<>>)

\* sizes around one and two repetitions of the 24-byte marker
PatternSizes == {16, 23, 24, 25, 48, 49}

SizeValues == {<<Dec(n)>> : n \in (0 - 1)..MaxSize} \cup {<<<<"x">>>>}
ChunkValues == {<<Dec(c)>> : c \in (0 - 1)..MaxChunk} \cup {<<>>}

GetRequests ==
  {Path(p) : p \in {"/stats", "/ping", "/test", "/", "/nope"}}
  \cup {Get("/test", <<>>, <<>>, <<>>, h) : h \in {<<"TRUE">>, <<"1">>, <<"false", "true">>}}
  \cup {Get("/test", size, chunk_size, type, hash) :
          size \in SizeValues, chunk_size \in ChunkValues,
          type \in {<<>>, <<"pattern">>}, hash \in {<<>>, <<"true">>}}
  \cup {Get("/test", <<Dec(n)>>, <<>>, <<"pattern">>, <<>>) : n \in PatternSizes}

Post(content_length, body) ==
  [kind |-> "POST", content_length |-> content_length, body |-> body]

Obj(type, data, hash, size, test_type, timestamp) ==
  [json |-> "object", type |-> type, data |-> data, hash |-> hash, size |-> size,
   test_type |-> test_type, timestamp |-> timestamp]

Texts == {<<>>, <<"a", "b">>, <<"a", NonAscii>>}

PostBodies ==
  {[json |-> "invalid"], [json |-> "bad_utf8"], [json |-> "array"]}
  \cup {Obj(J("str", "ping"), NoText, NoHash, NoNumber, NoName, ts) :
          ts \in {NoNumber, J("float", 5)}}
  \cup {Obj(J("str", "upload"), data, NoHash, NoNumber, NoName, NoNumber) :
          data \in {NoText, J("int", <<>>)} \cup {J("str", t) : t \in Texts}}
  \cup UNION {{Obj(J("str", "data_integrity"), J("str", t), hash, NoNumber, NoName, NoNumber) :
                  hash \in {NoHash, J("str", sha256(Bytes(encode(t)))),
                            J("str", [hex |-> "upper", of |-> Bytes(encode(t))]),
                            J("str", sha256(Bytes(<<"x">>)))}} : t \in Texts}
  \cup {Obj(NoName, NoText, NoHash, NoNumber, NoName, NoNumber),
        Obj(J("int", ""), NoText, NoHash, J("str", 0), NoName, NoNumber)}
  \cup {Obj(type, NoText, NoHash, J("int", n), test_type, NoNumber) :
          type \in {NoName, J("str", "throughput")}, n \in (0 - 1)..MaxSize,
          test_type \in {NoName, J("str", "pattern")}}

PostRequests ==
  {Post(<<<<"9">>>>, b) : b \in PostBodies}
  \cup {Post(<<>>, [json |-> "invalid"]), Post(<<<<"x">>>>, [json |-> "invalid"])}

HttpRequests == GetRequests \cup PostRequests \cup {[kind |-> "OPTIONS"]}

\* the requests of the concurrent specification: a stream download, an
\* upload of non-ASCII text, a snapshot
MixScripts == {<<THROUGHPUT \o <<SP, "1", SP, "1", NL>>>>}

MixRequests ==
  {Path("/stats"),
   Post(<<<<"9">>>>, Obj(J("str", "upload"), J("str", <<NonAscii>>), NoHash, NoNumber,
                          NoName, NoNumber))}

(***************************************************************************)
(* Specifications.                                                         *)
(***************************************************************************)
InitSessions(n) ==
  /\ STATS = reset_stats(0)
  /\ lock = {}
  /\ clock = 0
  /\ was_reset = FALSE
  /\ oper = "idle"
  /\ pc = [s \in 1..n |-> "idle"]
  /\ req = [s \in 1..n |-> TcpReq]
  /\ peer = [s \in 1..n |-> [segs |-> <<>>, closed |-> FALSE, rst |-> FALSE]]
  /\ inbuf = [s \in 1..n |-> <<>>]
  /\ loc = [s \in 1..n |-> Loc0]
  /\ out = [s \in 1..n |-> <<>>]
  /\ hist = [s \in 1..n |-> Hist0]

\* Spec: NSessions concurrent sessions on both transports and an operator
\* who may reset the registry; the peers stay connected
Init == InitSessions(NSessions)

Next ==
  \/ reset_acquire
  \/ call_reset_stats
  \/ \E s \in 1..NSessions :
       \/ tcp_accept(s, MixScripts)
       \/ http_request(s, MixRequests)
       \/ PeerSend(s)
       \/ lock_acquire(s)
       \/ call_increment_connection(s)
       \/ call_add_bytes(s)
       \/ call_get_stats(s)
       \/ call_decrement_connection(s)
       \/ tcp_recv_command(s)
       \/ tcp_dispatch(s)
       \/ tcp_throughput_start(s)
       \/ tcp_throughput_hash(s)
       \/ tcp_throughput_send_chunk(s)
       \/ tcp_throughput_end(s)
       \/ tcp_close(s)
       \/ http_handle_get(s)
       \/ http_handle_post(s)
       \/ http_end_headers(s)
       \/ http_write_body(s)

Spec == Init /\ [][Next]_vars

\* SpecSession: one session with any request on either transport, whose peer
\* may close the connection at any moment
InitSession == InitSessions(1)

Worker(s) ==
  \/ lock_acquire(s)
  \/ call_increment_connection(s)
  \/ call_add_bytes(s)
  \/ call_get_stats(s)
  \/ call_decrement_connection(s)
  \/ tcp_recv_command(s)
  \/ tcp_dispatch(s)
  \/ tcp_send_error(s)
  \/ tcp_throughput_start(s)
  \/ tcp_throughput_hash(s)
  \/ tcp_throughput_range_error(s)
  \/ tcp_throughput_send_chunk(s)
  \/ tcp_throughput_end(s)
  \/ tcp_ping(s)
  \/ tcp_upload_start(s)
  \/ tcp_upload_recv(s)
  \/ tcp_upload_reply(s)
  \/ tcp_close(s)
  \/ http_handle_get(s)
  \/ http_handle_post(s)
  \/ http_options(s)
  \/ http_end_headers(s)
  \/ http_post_generate(s)
  \/ http_write_body(s)
  \/ http_test_range_error(s)
  \/ http_test_send_chunk(s)
  \/ http_test_done(s)

NextSession ==
  \E s \in {1} :
    \/ tcp_accept(s, StreamScripts)
    \/ http_request(s, HttpRequests)
    \/ PeerSend(s)
    \/ PeerClose(s)
    \/ Worker(s)

SpecSession == InitSession /\ [][NextSession]_vars

\* the peer of a session that is blocked in recv supplies bytes or disconnects
PeerAnswers(s) ==
  /\ pc[s] \in {"recv_command", "upload_loop"}
  /\ inbuf[s] = <<>>
  /\ PeerSend(s) \/ PeerClose(s)

\* SpecLive: SpecSession where the worker thread keeps being scheduled and
\* the peer does not leave it blocked in recv for ever
SpecLive ==
  /\ InitSession
  /\ [][NextSession]_vars
  /\ WF_vars(Worker(1))
  /\ WF_vars(PeerAnswers(1))

(***************************************************************************)
(* Startup: main() and the thread that runs TCPThroughputServer.start.     *)
(* Their positions are kept in pc at the indices Main and Acceptor.        *)
(***************************************************************************)
Main == NSessions + 1
Acceptor == NSessions + 2

\* the interpreter has exited: sys.exit(1) or an uncaught exception in the
\* main thread gives status 1, returning from main() gives status 0; the
\* daemon threads (acceptor and stream workers) end with the process
Exited == {"exit_0", "exit_1"}

ProcessStep(p, to) ==
  /\ pc' = [pc EXCEPT ![p] = to]
  /\ UNCHANGED <<STATS, lock, clock, was_reset, oper, req, peer, inbuf, loc, out, hist>>

\* find_certificates(): without a certificate and key main() calls sys.exit(1)
main_find_certificates ==
  /\ pc[Main] = "find_certificates"
  /\ \E found \in BOOLEAN : ProcessStep(Main, IF found THEN "start_tcp" ELSE "exit_1")

\* tcp_thread.start(): the daemon thread begins TCPThroughputServer.start
main_start_tcp ==
  /\ pc[Main] = "start_tcp"
  /\ pc' = [pc EXCEPT ![Main] = "create_httpd", ![Acceptor] = "bind"]
  /\ UNCHANGED <<STATS, lock, clock, was_reset, oper, req, peer, inbuf, loc, out, hist>>

\* server_socket.bind / listen in the acceptor thread: on OSError the
\* exception leaves start() and ends that thread only
acceptor_bind ==
  /\ pc[Main] \notin Exited
  /\ pc[Acceptor] = "bind"
  /\ \E ok \in BOOLEAN : ProcessStep(Acceptor, IF ok THEN "accept" ELSE "dead")

\* ThreadedHTTPServer(...) binds the HTTP port and the socket is wrapped in
\* TLS; an OSError is not caught by `except KeyboardInterrupt`, leaves main()
\* and the interpreter exits with status 1
main_create_httpd ==
  /\ pc[Main] = "create_httpd"
  /\ \E ok \in BOOLEAN : ProcessStep(Main, IF ok THEN "serve_forever" ELSE "exit_1")

\* KeyboardInterrupt during serve_forever: the except clause calls
\* tcp_server.stop(), which sets running = False and closes the listening
\* socket; an acceptor blocked in accept() stays blocked on the closed socket
main_keyboard_interrupt ==
  /\ pc[Main] = "serve_forever"
  /\ pc' = [pc EXCEPT ![Main] = "stop_called",
                      ![Acceptor] = IF @ = "accept" THEN "accept_closed" ELSE @]
  /\ UNCHANGED <<STATS, lock, clock, was_reset, oper, req, peer, inbuf, loc, out, hist>>

\* main() returns after stop(): the interpreter exits with status 0 and the
\* daemon threads end with it
main_return ==
  /\ pc[Main] = "stop_called"
  /\ ProcessStep(Main, "exit_0")

\* where the acceptor loop goes after handing a connection to a worker:
\* `while self.running` is tested again
acceptor_loop(at) == IF at = "accept_closed" THEN "stopped" ELSE at

\* the acceptor loop: accept() returns a connection, which is handed to a
\* new daemon worker thread; an accept() that was blocked when stop() closed
\* the socket still returns the next connection that arrives
acceptor_accept(s) ==
  /\ pc[Main] \notin Exited
  /\ pc[Acceptor] \in {"accept", "accept_closed"}
  /\ pc[s] = "idle"
  /\ \E script \in MixScripts :
       peer' = [peer EXCEPT ![s] = [segs |-> script, closed |-> FALSE, rst |-> FALSE]]
  /\ req' = [req EXCEPT ![s] = TcpReq]
  /\ pc' = [pc EXCEPT ![s] = "increment_connection", ![Acceptor] = acceptor_loop(@)]
  /\ UNCHANGED <<STATS, lock, clock, was_reset, oper, inbuf, loc, out, hist>>

\* where the acceptor goes when accept() or Thread.start() raises: the
\* except clause of the loop breaks out of it
acceptor_except(at) == "loop_ended"

\* accept() raises (OSError: the socket was closed, the process is out of
\* file descriptors, the connection was aborted), or the worker thread
\* cannot be started
acceptor_accept_error ==
  /\ pc[Main] \notin Exited
  /\ pc[Acceptor] \in {"accept", "accept_closed"}
  /\ ProcessStep(Acceptor, acceptor_except(pc[Acceptor]))

\* serve_forever hands a request to a new handler thread
httpd_serve(s) ==
  /\ pc[Main] = "serve_forever"
  /\ http_request(s, MixRequests)

\* the steps of a session of the running process
ProcessWorker(s) ==
  /\ pc[Main] \notin Exited
  /\ \/ PeerSend(s)
     \/ lock_acquire(s)
     \/ call_increment_connection(s)
     \/ call_add_bytes(s)
     \/ call_get_stats(s)
     \/ call_decrement_connection(s)
     \/ tcp_recv_command(s)
     \/ tcp_dispatch(s)
     \/ tcp_throughput_start(s)
     \/ tcp_throughput_hash(s)
     \/ tcp_throughput_send_chunk(s)
     \/ tcp_throughput_end(s)
     \/ tcp_close(s)
     \/ http_handle_get(s)
     \/ http_handle_post(s)
     \/ http_end_headers(s)
     \/ http_write_body(s)

\* SpecMain: the process from the start of main() on, serving one session
InitMain ==
  /\ STATS = reset_stats(0)
  /\ lock = {}
  /\ clock = 0
  /\ was_reset = FALSE
  /\ oper = "idle"
  /\ pc = [p \in {1, Main, Acceptor} |->
            IF p = Main THEN "find_certificates"
            ELSE IF p = Acceptor THEN "not_started" ELSE "idle"]
  /\ req = [p \in {1, Main, Acceptor} |-> TcpReq]
  /\ peer = [p \in {1, Main, Acceptor} |-> [segs |-> <<>>, closed |-> FALSE, rst |-> FALSE]]
  /\ inbuf = [p \in {1, Main, Acceptor} |-> <<>>]
  /\ loc = [p \in {1, Main, Acceptor} |-> Loc0]
  /\ out = [p \in {1, Main, Acceptor} |-> <<>>]
  /\ hist = [p \in {1, Main, Acceptor} |-> Hist0]

NextMain ==
  \/ main_find_certificates
  \/ main_start_tcp
  \/ acceptor_bind
  \/ main_create_httpd
  \/ main_keyboard_interrupt
  \/ main_return
  \/ acceptor_accept_error
  \/ \E s \in {1} : acceptor_accept(s) \/ httpd_serve(s) \/ ProcessWorker(s)

SpecMain == InitMain /\ [][NextMain]_vars

(***************************************************************************)
(* Properties of the registry.                                             *)
(***************************************************************************)
\* C1: once every one of the N concurrent sessions has completed without an
\* exception, each having transferred the same number b of payload bytes, and
\* the registry was not reset meanwhile, total_bytes_sent = N * b,
\* active_connections = 0 and total_connections = N.
C1_StatsAfterSessions ==
  LET N == Cardinality(Sessions)
      b == hist[1].moved
  IN (/\ ~was_reset
      /\ \A s \in Sessions : pc[s] = "done" /\ hist[s].exc = None /\ hist[s].moved = b)
     => /\ STATS.total_bytes_sent = N * b
        /\ STATS.active_connections = 0
        /\ STATS.total_connections = N

C3_ActiveNonNegative == STATS.active_connections >= 0

\* two sessions decremented after a reset had already zeroed the counter:
\* more decrements than increments since the reset
C3_DecrementsAtZero ==
  /\ Cardinality({s \in Sessions : hist[s].floored}) >= 2
  /\ STATS.active_connections = 0

\* C4: no step of a session lowers total_bytes_sent, as long as reset is not
\* called.
C4_TotalNeverDecreases ==
  [][was_reset' = was_reset => STATS'.total_bytes_sent >= STATS.total_bytes_sent]_vars

\* C5: every registry operation runs under the one lock and the lock is held
\* across no socket I/O: at most one thread holds the lock, a session holds it
\* exactly while it is inside the body of a registry operation (so never at a
\* socket read or write), the operator exactly while inside reset_stats, and
\* the registry changes only in a step of the holder, which releases the lock.
C5_RegistryUnderLock ==
  /\ [](/\ Cardinality(lock) <= 1
        /\ \A s \in Sessions : s \in lock <=> pc[s] \in LockedPcs
        /\ Operator \in lock <=> oper = "reset_stats_locked")
  /\ [][STATS' # STATS => Cardinality(lock) = 1 /\ lock' = {}]_vars

\* a session completes a registry operation while another one is blocked in
\* recv on a connection that has delivered nothing
C5_OperationWhileOtherBlocked ==
  \E s, t \in Sessions :
    /\ s # t
    /\ pc[t] = "recv_command" /\ inbuf[t] = <<>> /\ ~peer[t].closed
    /\ lock = {s} /\ pc[s] \in LockedPcs

(***************************************************************************)
(* Properties of the stream transport.                                     *)
(***************************************************************************)
\* C6: the phases a stream session enters are, in this order and each at most
\* once, AWAIT_COMMAND, DISPATCH, one flow out of THROUGHPUT, PING, UPLOAD
\* and ERROR, CLOSE: no phase is entered again and no second flow runs; only
\* a session whose read of the command failed goes from AWAIT_COMMAND
\* straight to CLOSE; a session that is over has reached CLOSE.
C6_OneCommandOneFlow ==
  \A s \in Sessions :
    req[s].kind = "tcp" =>
      LET phases == hist[s].phases
          IsPrefixOf(path) == /\ Len(phases) <= Len(path)
                              /\ \A k \in 1..Len(phases) : phases[k] = path[k]
      IN /\ \/ \E flow \in {"THROUGHPUT", "PING", "UPLOAD", "ERROR"} :
                 IsPrefixOf(<<"AWAIT_COMMAND", "DISPATCH", flow, "CLOSE">>)
            \/ /\ phases = <<"AWAIT_COMMAND", "CLOSE">>
               /\ hist[s].exc \in {"ConnectionResetError", "UnicodeDecodeError"}
         /\ pc[s] = "done" => phases # <<>> /\ phases[Len(phases)] = "CLOSE"

\* a stream session went through the four phases
C6_FullPath ==
  \E s \in Sessions :
    /\ req[s].kind = "tcp" /\ pc[s] = "done"
    /\ hist[s].phases = <<"AWAIT_COMMAND", "DISPATCH", "UPLOAD", "CLOSE">>

C8_UnknownCommandAnswered ==
  \A s \in Sessions :
    (/\ req[s].kind = "tcp" /\ pc[s] = "done"
     /\ hist[s].exc \notin {"BrokenPipeError", "ConnectionResetError"}
     /\ ~DecodeOk(loc[s].raw) \/ Dispatch(strip(loc[s].raw)) = "ERROR")
    => /\ Len(out[s]) = 1 /\ out[s][1].t = "ERROR: Unknown command"
       /\ hist[s].phases = <<"AWAIT_COMMAND", "DISPATCH", "ERROR", "CLOSE">>
       /\ hist[s].adds = <<>>
       /\ hist[s].closed

\* C9: what a stream THROUGHPUT flow has written is, in this order, the
\* THROUGHPUT_START line, the HASH line, payload writes that are consecutive
\* slices of the payload of 1..chunk_size bytes each, and THROUGHPUT_END as
\* the last write; THROUGHPUT_END is written only when the payload writes
\* total size bytes.
C9_ThroughputOutputOrdered ==
  \A s \in Sessions :
    (req[s].kind = "tcp" /\ loc[s].flow = "THROUGHPUT") =>
      LET o == out[s]
          n == Len(o)
      IN /\ n >= 1 => o[1].t = "THROUGHPUT_START"
         /\ n >= 2 => o[2].t = "HASH"
         /\ \A k \in 3..n :
              \/ o[k].t = "THROUGHPUT_END" /\ k = n
              \/ /\ o[k].t = "DATA"
                 /\ o[k].a[1] = (IF k = 3 THEN 0 ELSE o[k - 1].a[2])
                 /\ o[k].a[2] - o[k].a[1] \in 1..loc[s].chunk_size
         /\ (n >= 3 /\ o[n].t = "THROUGHPUT_END") => hist[s].moved = loc[s].size

\* C10: a stream THROUGHPUT flow that completed (THROUGHPUT_END written) has
\* called add_bytes exactly once, with size; one that a failed write ended
\* has called add_bytes not at all and sent no error line, and its session is
\* released: socket closed, decrement done.
C10_AddBytesOnCompletion ==
  \A s \in Sessions :
    (req[s].kind = "tcp" /\ loc[s].flow = "THROUGHPUT" /\ pc[s] = "done") =>
      /\ (out[s] # <<>> /\ out[s][Len(out[s])].t = "THROUGHPUT_END")
           => hist[s].adds = <<loc[s].size>>
      /\ hist[s].exc = "BrokenPipeError"
           => /\ hist[s].adds = <<>>
              /\ \A k \in 1..Len(out[s]) : out[s][k].t # "ERROR: Unknown command"
              /\ hist[s].closed /\ hist[s].decs = 1

\* C11: a stream UPLOAD session whose peer shut the connection down after
\* only m bytes of the n expected had arrived, m < n, has read all m bytes
\* and replied READY and then UPLOAD_COMPLETE m <digest of those m bytes>;
\* the short upload raises nothing and no error line is written.
C11_ShortUploadReported ==
  \A s \in Sessions :
    (/\ req[s].kind = "tcp" /\ pc[s] = "done" /\ loc[s].flow = "UPLOAD"
     /\ hist[s].exc = None
     /\ Len(loc[s].received_data) < loc[s].expected_size)
    => /\ peer[s].closed /\ inbuf[s] = <<>>
       /\ Len(loc[s].received_data) = hist[s].moved
       /\ Len(out[s]) = 2
       /\ out[s][1].t = "READY"
       /\ out[s][2].t = "UPLOAD_COMPLETE"
       /\ out[s][2].a = <<hist[s].moved, sha256(Bytes(loc[s].received_data))>>

\* UPLOAD 3 answered with UPLOAD_COMPLETE 2 after the peer sent two bytes
C11_TwoOfThree ==
  \E s \in Sessions :
    /\ req[s].kind = "tcp" /\ pc[s] = "done" /\ loc[s].flow = "UPLOAD"
    /\ loc[s].expected_size = 3 /\ loc[s].received_data = <<"a", "b">>
    /\ Len(out[s]) = 2 /\ out[s][2].t = "UPLOAD_COMPLETE"

\* C12: once the receive loop of a stream UPLOAD flow has ended (READY was
\* written and no recv raised) and the session is over, total_bytes_sent has
\* grown by the number of bytes received, through at most one add_bytes call.
C12_UploadBytesRecorded ==
  \A s \in Sessions :
    (/\ req[s].kind = "tcp" /\ pc[s] = "done" /\ loc[s].flow = "UPLOAD"
     /\ out[s] # <<>>
     /\ hist[s].exc \in {None, "BrokenPipeError"})
    => /\ STATS.total_bytes_sent = Len(loc[s].received_data)
       /\ Len(hist[s].adds) <= 1

\* C13: what AWAIT_COMMAND has consumed when the session dispatches is
\* exactly one command line: the bytes up to and including the first newline
\* and nothing after it, or, when the peer disconnected before sending a
\* newline, everything it had sent.
C13_OneCommandLine ==
  \A s \in Sessions :
    (req[s].kind = "tcp" /\ pc[s] = "dispatch") =>
      LET raw == loc[s].raw
      IN \/ /\ raw # <<>>
            /\ raw[Len(raw)] = NL
            /\ \A k \in 1..(Len(raw) - 1) : raw[k] # NL
         \/ /\ \A k \in 1..Len(raw) : raw[k] # NL
            /\ peer[s].closed
            /\ inbuf[s] = <<>>

\* C14: a session that ended on a protocol error, its peer still connected,
\* has reported the error: a stream session whose command failed to parse
\* has written an ERROR: line; a POST with malformed JSON and a GET of an
\* unknown path have been answered with a 4xx status; the session has
\* reached its end with its decrement done.
C14_ProtocolErrorReported ==
  \A s \in Sessions :
    (pc[s] = "done" /\ ~peer[s].closed) =>
      LET Answered4xx == /\ out[s] # <<>>
                         /\ out[s][1].t = "HEADERS"
                         /\ out[s][1].a[1].k = "status"
                         /\ out[s][1].a[1].v \in 400..499
      IN /\ (req[s].kind = "tcp" /\ hist[s].exc = "ValueError")
              => /\ \E k \in 1..Len(out[s]) : out[s][k].t = "ERROR: Unknown command"
                 /\ hist[s].closed /\ hist[s].decs = 1
         /\ (/\ req[s].kind = "POST"
             /\ req[s].body.json = "invalid"
             /\ req[s].content_length = <<>> \/ IntOk(req[s].content_length[1]))
              => Answered4xx /\ hist[s].decs = 1
         /\ (req[s].kind = "GET" /\ req[s].path \notin {"/stats", "/ping", "/test", "/"})
              => Answered4xx /\ hist[s].decs = 1

(***************************************************************************)
(* Properties of startup.                                                  *)
(***************************************************************************)
\* C15: a bind failure of a listener is fatal.  Once the stream listener
\* failed to bind, the process does not end with status 0 and hands no new
\* connection or request to a worker; once the process has exited, no thread
\* of it takes a step.
C15_BindFailureFatal ==
  /\ [](pc[Acceptor] = "dead" => pc[Main] # "exit_0")
  /\ [][pc[Acceptor] = "dead" => ~(pc[1] = "idle" /\ pc'[1] # "idle")]_vars
  /\ [][pc[Main] \in Exited => pc' = pc]_vars

(***************************************************************************)
(* Properties of the HTTP transport.                                       *)
(***************************************************************************)
\* C16: the first status line a client reads in the answer to a GET whose
\* path is none of /stats, /ping, /test, / is 404, and so is not 200.
C16_UnknownPathNotFound ==
  \A s \in Sessions :
    (/\ req[s].kind = "GET"
     /\ req[s].path \notin {"/stats", "/ping", "/test", "/"}
     /\ out[s] # <<>>) =>
      /\ out[s][1].t = "HEADERS"
      /\ out[s][1].a[1].k = "status"
      /\ out[s][1].a[1].v = 404
      /\ out[s][1].a[1].v # 200

\* C17: a POST whose body is not a well-formed JSON object (unparsable text,
\* bytes that are not UTF-8, a JSON value that is not an object) and whose
\* client stayed connected ends answered with status 400, with no test
\* handler entered and no bytes recorded.
C17_BadBodyRejected ==
  \A s \in Sessions :
    (/\ pc[s] = "done"
     /\ ~peer[s].closed
     /\ req[s].kind = "POST"
     /\ req[s].content_length = <<>> \/ IntOk(req[s].content_length[1])
     /\ req[s].content_length = <<>> \/ req[s].body.json \in {"invalid", "bad_utf8", "array"}) =>
      /\ out[s] # <<>>
      /\ out[s][1].t = "HEADERS"
      /\ out[s][1].a[1].k = "status"
      /\ out[s][1].a[1].v = 400
      /\ loc[s].flow = "bad_json"
      /\ hist[s].adds = <<>>

\* C18: every block of response headers written for a GET, a POST or an
\* OPTIONS request holds the three cross-origin headers, and the answer to an
\* OPTIONS request is exactly a 200 response line with those headers and no
\* body.
C18_CorsOnEveryResponse ==
  \A s \in Sessions :
    /\ \A k \in 1..Len(out[s]) :
         out[s][k].t = "HEADERS" =>
           \A c \in 1..Len(CorsHeaders) :
             \E j \in 1..Len(out[s][k].a) :
               /\ out[s][k].a[j].k = CorsHeaders[c].k
               /\ out[s][k].a[j].v = CorsHeaders[c].v
    /\ (req[s].kind = "OPTIONS" /\ pc[s] = "done" /\ ~peer[s].closed) =>
         out[s] = <<Ev("HEADERS", ResponseLine(200) \o CorsHeaders)>>

\* C19: a test of size 0 whose peer stayed connected ends having written only
\* framing and no payload.  A stream THROUGHPUT flow that announced size 0
\* has written exactly THROUGHPUT_START, HASH and THROUGHPUT_END; a GET of
\* /test with size=0 has written exactly one header block, with status 200,
\* Content-Length 0 and the test headers; in both, no payload byte has moved
\* and add_bytes has added nothing to total_bytes_sent.
C19_ZeroSizeOnlyFraming ==
  \A s \in Sessions :
    (pc[s] = "done" /\ ~peer[s].closed) =>
      /\ (/\ req[s].kind = "tcp"
          /\ out[s] # <<>>
          /\ out[s][1].t = "THROUGHPUT_START"
          /\ out[s][1].a[1] = 0) =>
           /\ Len(out[s]) = 3
           /\ out[s][2].t = "HASH"
           /\ out[s][3].t = "THROUGHPUT_END"
           /\ hist[s].moved = 0
           /\ \A k \in 1..Len(hist[s].adds) : hist[s].adds[k] = 0
      /\ (/\ req[s].kind = "GET"
          /\ req[s].path \in {"/test", "/"}
          /\ req[s].size = <<Dec(0)>>) =>
           /\ Len(out[s]) = 1
           /\ out[s][1].t = "HEADERS"
           /\ out[s][1].a[1].k = "status"
           /\ out[s][1].a[1].v = 200
           /\ \E j \in 1..Len(out[s][1].a) :
                out[s][1].a[j].k = "Content-Length" /\ out[s][1].a[j].v = 0
           /\ \E j \in 1..Len(out[s][1].a) : out[s][1].a[j].k = "X-Test-Type"
           /\ \E j \in 1..Len(out[s][1].a) : out[s][1].a[j].k = "X-Chunk-Size"
           /\ hist[s].moved = 0
           /\ \A k \in 1..Len(hist[s].adds) : hist[s].adds[k] = 0

\* C20: whatever framing a test has emitted was emitted with size >= 0 and
\* chunk size > 0: the THROUGHPUT_START line of a stream flow, the header
\* block of GET /test and the response of a POST throughput test announce a
\* non-negative size and a positive chunk size; no flow is in its streaming
\* loop with other parameters; and a flow that completed has written as many
\* payload bytes as it announced.
C20_ParametersValidated ==
  \A s \in Sessions :
    /\ (req[s].kind = "tcp" /\ out[s] # <<>> /\ out[s][1].t = "THROUGHPUT_START") =>
         /\ out[s][1].a[1] >= 0
         /\ out[s][1].a[2] > 0
         /\ out[s][Len(out[s])].t = "THROUGHPUT_END" => hist[s].moved = out[s][1].a[1]
    /\ (req[s].kind = "GET" /\ req[s].path \in {"/test", "/"} /\ out[s] # <<>>) =>
         /\ \A j \in 1..Len(out[s][1].a) :
              /\ out[s][1].a[j].k = "Content-Length" => out[s][1].a[j].v >= 0
              /\ out[s][1].a[j].k = "X-Chunk-Size" => out[s][1].a[j].v > 0
              /\ (out[s][1].a[j].k = "Content-Length" /\ pc[s] = "done" /\ ~peer[s].closed)
                   => hist[s].moved = out[s][1].a[j].v
    /\ (req[s].kind = "POST" /\ loc[s].flow = "throughput_post") =>
         \A k \in 1..Len(out[s]) :
           out[s][k].t = "BODY" =>
             /\ out[s][k].a.size >= 0
             /\ out[s][k].a.size = out[s][k].a.data.of.len
    /\ pc[s] \in {"throughput_loop", "test_loop"} =>
         loc[s].size >= 0 /\ loc[s].chunk_size > 0

\* C21: a GET of /test with size >= 0 and chunk_size > 0 whose client stayed
\* connected writes its body as consecutive slices of the payload, each of
\* chunk_size bytes except the last, which carries the remaining
\* 1..chunk_size bytes; when the handler has ended, the body written is
\* exactly size bytes, the announced Content-Length.
C21_BodyInChunks ==
  \A s \in Sessions :
    (/\ req[s].kind = "GET"
     /\ req[s].path \in {"/test", "/"}
     /\ out[s] # <<>>
     /\ loc[s].size >= 0
     /\ loc[s].chunk_size > 0) =>
      LET o == out[s]
          n == Len(o)
      IN /\ o[1].t = "HEADERS"
         /\ \E j \in 1..Len(o[1].a) :
              o[1].a[j].k = "Content-Length" /\ o[1].a[j].v = loc[s].size
         /\ \A k \in 2..n :
              /\ o[k].t = "DATA"
              /\ o[k].a[1] = (IF k = 2 THEN 0 ELSE o[k - 1].a[2])
              /\ o[k].a[2] <= loc[s].size
              /\ o[k].a[2] - o[k].a[1] \in 1..loc[s].chunk_size
              /\ k < n => o[k].a[2] - o[k].a[1] = loc[s].chunk_size
         /\ hist[s].moved = (IF n = 1 THEN 0 ELSE o[n].a[2])
         /\ (pc[s] = "done" /\ ~peer[s].closed) => hist[s].moved = loc[s].size

\* a body of three bytes written as a chunk of two and a remainder of one
C21_TwoThenOne ==
  \E s \in Sessions :
    /\ req[s].kind = "GET"
    /\ pc[s] = "done"
    /\ ~peer[s].closed
    /\ Len(out[s]) = 3
    /\ out[s][2] = Ev("DATA", <<0, 2>>)
    /\ out[s][3] = Ev("DATA", <<2, 3>>)

\* C22 as stated: the header block of a GET of /test holds X-Data-Hash if and
\* only if the query has hash=true; the header block is written before any
\* body byte.
C22_HashIffTrue ==
  \A s \in Sessions :
    (req[s].kind = "GET" /\ req[s].path \in {"/test", "/"} /\ out[s] # <<>>) =>
      /\ out[s][1].t = "HEADERS"
      /\ (\E j \in 1..Len(out[s][1].a) : out[s][1].a[j].k = "X-Data-Hash")
           <=> (\E v \in 1..Len(req[s].hash) : req[s].hash[v] = "true")
      /\ \A k \in 2..Len(out[s]) : out[s][k].t = "DATA"

\* C22 as amended: the header block of a GET of /test holds X-Data-Hash if and
\* only if the first value of the hash parameter reads true in any letter
\* case; the header is then the digest of the payload, and its header block
\* is written before any body byte.
C22_HashIffFirstValueTrue ==
  \A s \in Sessions :
    (req[s].kind = "GET" /\ req[s].path \in {"/test", "/"} /\ out[s] # <<>>) =>
      /\ out[s][1].t = "HEADERS"
      /\ (\E j \in 1..Len(out[s][1].a) : out[s][1].a[j].k = "X-Data-Hash")
           <=> (req[s].hash # <<>> /\ req[s].hash[1] \in {"true", "True", "TRUE"})
      /\ \A j \in 1..Len(out[s][1].a) :
           out[s][1].a[j].k = "X-Data-Hash" => out[s][1].a[j].v = sha256(loc[s].data)
      /\ \A k \in 2..Len(out[s]) : out[s][k].t = "DATA"

\* hash=TRUE: the digest header is out and body bytes follow it
C22_UpperCaseHashSent ==
  \E s \in Sessions :
    /\ req[s].kind = "GET"
    /\ req[s].hash = <<"TRUE">>
    /\ Len(out[s]) >= 2
    /\ \E j \in 1..Len(out[s][1].a) : out[s][1].a[j].k = "X-Data-Hash"
    /\ out[s][2].t = "DATA"

\* C23: a digest the server announced is the digest of the bytes it sent as
\* the payload of the same response.  For a stream THROUGHPUT flow that wrote
\* THROUGHPUT_END and for a GET of /test that ended normally with X-Data-Hash
\* in its headers, the payload writes are the consecutive slices of the
\* digested data, from its first byte to its last; the hash field of a POST
\* throughput response is the digest of the bytes its data field encodes.
C23_DigestOfPayloadSent ==
  \A s \in Sessions :
    LET o == out[s]
        n == Len(o)
        Covers(first, last, data) ==
          /\ \A k \in first..last :
               /\ o[k].t = "DATA"
               /\ o[k].a[1] = (IF k = first THEN 0 ELSE o[k - 1].a[2])
          /\ (IF last < first THEN 0 ELSE o[last].a[2]) = data.len
    IN /\ (req[s].kind = "tcp" /\ n >= 3 /\ o[n].t = "THROUGHPUT_END") =>
            /\ o[2].t = "HASH"
            /\ o[2].a = sha256(loc[s].data)
            /\ Covers(3, n - 1, o[2].a.of)
       /\ (/\ req[s].kind = "GET"
           /\ req[s].path \in {"/test", "/"}
           /\ pc[s] = "done" /\ ~peer[s].closed /\ hist[s].exc = None
           /\ n >= 1) =>
            \A j \in 1..Len(o[1].a) :
              o[1].a[j].k = "X-Data-Hash" =>
                /\ o[1].a[j].v = sha256(loc[s].data)
                /\ Covers(2, n, o[1].a[j].v.of)
       /\ (req[s].kind = "POST" /\ loc[s].flow = "throughput_post") =>
            \A k \in 1..n :
              o[k].t = "BODY" =>
                /\ o[k].a.hash = sha256(o[k].a.data.of)
                /\ o[k].a.data.hex = "lower"

\* C24: a GET of /test has called add_bytes only once every byte of its body
\* was written, and then with the number of bytes written; a handler that a
\* failed body write ended (the client went away mid-stream) has written
\* nothing after it, raised nothing, called add_bytes not at all, and its
\* session is released by exactly one decrement.
C24_AddBytesAfterBody ==
  \A s \in Sessions :
    (req[s].kind = "GET" /\ req[s].path \in {"/test", "/"}) =>
      /\ hist[s].adds # <<>> =>
           /\ hist[s].moved = loc[s].data.len
           /\ hist[s].adds = <<hist[s].moved>>
      /\ (/\ pc[s] = "done"
          /\ out[s] # <<>>
          /\ loc[s].chunk_size > 0
          /\ hist[s].moved < loc[s].data.len) =>
           /\ peer[s].closed
           /\ hist[s].exc = None
           /\ hist[s].adds = <<>>
           /\ hist[s].decs = 1

(***************************************************************************)
(* SpecPattern: NSessions concurrent HTTP sessions that all ask for        *)
(* pattern payloads, by GET and by POST, in any interleaving.              *)
(***************************************************************************)
PatternRequests ==
  {Get("/test", <<Dec(n)>>, <<>>, <<"pattern">>, <<>>) : n \in {0 - 1, 1, 25}}
  \cup {Post(<<<<"9">>>>, Obj(NoName, NoText, NoHash, J("int", n), J("str", "pattern"), NoNumber)) :
          n \in {1, 25}}

NextPattern ==
  \E s \in 1..NSessions :
    \/ http_request(s, PatternRequests)
    \/ lock_acquire(s)
    \/ call_increment_connection(s)
    \/ call_add_bytes(s)
    \/ call_decrement_connection(s)
    \/ http_handle_get(s)
    \/ http_handle_post(s)
    \/ http_end_headers(s)
    \/ http_post_generate(s)
    \/ http_write_body(s)
    \/ http_test_send_chunk(s)
    \/ http_test_done(s)

SpecPattern == Init /\ [][NextPattern]_vars

(***************************************************************************)
(* Properties of the payload generators and the POST tests.                *)
(***************************************************************************)
\* C25: the pattern payload generated for a size >= 0, by GET /test with
\* type=pattern or by a POST throughput test with test_type pattern, has
\* exactly size bytes, and its byte at every offset i is the byte of the
\* marker THROUGHPUT_TEST_PATTERN_ at offset i mod 24; for size 16 it is the
\* first 16 bytes of the marker.
C25_PatternTiled ==
  \A s \in Sessions :
    LET Tiled(data, size) ==
          /\ data.src = "bytes"
          /\ data.len = size
          /\ Len(data.bytes) = size
          /\ \A i \in 0..(size - 1) : data.bytes[i + 1] = PATTERN[(i % 24) + 1]
          /\ size = 16 =>
               data.bytes = <<"T", "H", "R", "O", "U", "G", "H", "P", "U", "T", "_",
                              "T", "E", "S", "T", "_">>
    IN /\ (/\ req[s].kind = "GET"
           /\ req[s].type = <<"pattern">>
           /\ loc[s].flow = "test"
           /\ loc[s].size >= 0) => Tiled(loc[s].data, loc[s].size)
       /\ (/\ req[s].kind = "POST"
           /\ loc[s].flow = "throughput_post"
           /\ loc[s].body.t = "throughput"
           /\ req[s].body.test_type = J("str", "pattern")
           /\ loc[s].size >= 0) => Tiled(loc[s].data, loc[s].size)

\* a payload of 25 bytes, one full marker and one more byte, has been sent
C25_MarkerAndOne ==
  \E s \in Sessions :
    /\ req[s].kind = "GET"
    /\ req[s].type = <<"pattern">>
    /\ pc[s] = "done"
    /\ loc[s].size = 25
    /\ hist[s].moved = 25
    /\ loc[s].data.bytes = PATTERN \o <<"T">>

C27_IntegrityIffEqual ==
  \A s \in Sessions :
    (req[s].kind = "POST" /\ loc[s].flow = "data_integrity") =>
      LET data == JsonGet(req[s].body.data, J("str", <<>>))
          digest == sha256(Bytes(encode(data.v)))
          submitted == req[s].body.hash
      IN /\ \A k \in 1..Len(out[s]) :
              out[s][k].t = "BODY" =>
                /\ out[s][k].a.t = "integrity"
                /\ out[s][k].a.data_integrity
                     <=> (submitted.ty = "str" /\ submitted.v = digest)
                /\ out[s][k].a.actual_hash = digest
                /\ out[s][k].a.received_bytes = Len(data.v)
         /\ (pc[s] = "done" /\ ~peer[s].closed) =>
              /\ Len(out[s]) = 2
              /\ out[s][1].t = "HEADERS"
              /\ \A j \in 1..Len(out[s][1].a) : out[s][1].a[j].k # "status"
              /\ out[s][2].t = "BODY"
              /\ hist[s].exc = None

\* the digest submitted in upper case: answered false in a normal response
C27_UpperCaseIsMismatch ==
  \E s \in Sessions :
    /\ req[s].kind = "POST"
    /\ loc[s].flow = "data_integrity"
    /\ req[s].body.hash.ty = "str"
    /\ req[s].body.hash.v = [hex |-> "upper", of |-> Bytes(encode(<<"a", "b">>))]
    /\ req[s].body.data = J("str", <<"a", "b">>)
    /\ pc[s] = "done"
    /\ Len(out[s]) = 2
    /\ out[s][2].a.data_integrity = FALSE

(***************************************************************************)
(* Properties of the stream PING flow.                                     *)
(***************************************************************************)
\* C28: a stream PING whose command carries a timestamp token or no token,
\* and whose peer stayed connected, has written exactly one line, PONG
\* <client_ts> <server_ts>, where server_ts is the latest reading of the
\* clock; client_ts is the value of the token when there is one, and
\* otherwise a reading of the clock not later than server_ts.
C28_PongEchoesTimestamp ==
  \A s \in Sessions :
    (/\ req[s].kind = "tcp"
     /\ loc[s].flow = "PING"
     /\ pc[s] = "done"
     /\ ~peer[s].closed
     /\ Len(split(loc[s].command)) > 1 => FloatOk(split(loc[s].command)[2])) =>
      /\ Len(out[s]) = 1
      /\ out[s][1].t = "PONG"
      /\ out[s][1].a[2] = clock
      /\ IF Len(split(loc[s].command)) > 1
         THEN out[s][1].a[1] = DigitsVal(split(loc[s].command)[2])
         ELSE out[s][1].a[1] \in 0..out[s][1].a[2]

\* PING 5 answered PONG 5 <server_ts>
C28_FiveEchoed ==
  \E s \in Sessions :
    /\ req[s].kind = "tcp"
    /\ loc[s].command = PING \o <<SP, "5">>
    /\ pc[s] = "done"
    /\ out[s] = <<Ev("PONG", <<5, 1>>)>>

(***************************************************************************)
(* Properties of the POST tests.                                           *)
(***************************************************************************)
\* C29: a POST whose JSON object has no type, or a type other than ping,
\* upload and data_integrity, and which asks for a size (or for none: the
\* default 2097152), is answered, its client connected, as a throughput
\* test: the response holds the payload in lower-case hex and the digest of
\* that payload, the payload has exactly the requested size, and add_bytes
\* was called once with that size.
C29_DefaultIsThroughput ==
  \A s \in Sessions :
    (/\ req[s].kind = "POST"
     /\ req[s].content_length # <<>>
     /\ IntOk(req[s].content_length[1])
     /\ req[s].body.json = "object"
     /\ ~(/\ req[s].body.type.ty = "str"
          /\ req[s].body.type.v \in {"ping", "upload", "data_integrity"})
     /\ req[s].body.size.ty \in {"absent", "int"}
     /\ pc[s] = "done"
     /\ ~peer[s].closed) =>
      LET size == IF req[s].body.size.ty = "absent" THEN 2097152 ELSE req[s].body.size.v
      IN /\ Len(out[s]) = 2
         /\ out[s][2].t = "BODY"
         /\ out[s][2].a.t = "throughput"
         /\ out[s][2].a.size = size
         /\ out[s][2].a.data.hex = "lower"
         /\ out[s][2].a.data.of.len = size
         /\ out[s][2].a.hash = sha256(out[s][2].a.data.of)
         /\ hist[s].adds = <<size>>
         /\ size >= 0

\* C30: a POST upload test with a string payload whose client stayed
\* connected has answered with the digest of the payload's bytes and has
\* called add_bytes once, with the number of those bytes: the amount
\* recorded is the length of the byte sequence the digest was computed over.
C30_UploadByteLength ==
  \A s \in Sessions :
    (/\ req[s].kind = "POST"
     /\ loc[s].flow = "upload"
     /\ pc[s] = "done"
     /\ ~peer[s].closed) =>
      LET data == JsonGet(req[s].body.data, J("str", <<>>))
      IN /\ Len(out[s]) = 2
         /\ out[s][2].t = "BODY"
         /\ out[s][2].a.data_hash = sha256(Bytes(encode(data.v)))
         /\ hist[s].adds = <<out[s][2].a.data_hash.of.len>>

(***************************************************************************)
(* SpecStats: two concurrent HTTP requests, snapshots and uploads, with    *)
(* the operator's reset and the passing of time interleaved.               *)
(***************************************************************************)
MaxClock == 2

StatsSessions == {1, 2}

\* time.time() advances
Tick ==
  /\ clock < MaxClock
  /\ clock' = clock + 1
  /\ UNCHANGED <<STATS, lock, was_reset, oper, pc, req, peer, inbuf, loc, out, hist>>

NextStats ==
  \/ Tick
  \/ reset_acquire
  \/ call_reset_stats
  \/ \E s \in StatsSessions :
       \/ http_request(s, MixRequests)
       \/ lock_acquire(s)
       \/ call_increment_connection(s)
       \/ call_add_bytes(s)
       \/ call_get_stats(s)
       \/ call_decrement_connection(s)
       \/ http_handle_get(s)
       \/ http_handle_post(s)
       \/ http_end_headers(s)
       \/ http_write_body(s)

SpecStats == InitSessions(Cardinality(StatsSessions)) /\ [][NextStats]_vars

(***************************************************************************)
(* Further properties of the registry.                                     *)
(***************************************************************************)
\* C31: total_connections = tcp_connections + http_connections in every
\* reachable state, resets included; and the step in which a session's
\* increment_connection runs raises active_connections, total_connections
\* and the counter of the session's own transport (tcp_connections for a
\* stream session, http_connections for a GET or POST) by one each and
\* leaves every other field of the registry as it was.
C31_TotalIsSumOfTransports ==
  /\ [](STATS.total_connections = STATS.tcp_connections + STATS.http_connections)
  /\ [][\A s \in Sessions :
          (pc[s] = "increment_connection_locked" /\ pc'[s] # pc[s]) =>
            STATS' = IF req[s].kind = "tcp"
                     THEN [STATS EXCEPT !.active_connections = @ + 1,
                                        !.total_connections = @ + 1,
                                        !.tcp_connections = @ + 1]
                     ELSE [STATS EXCEPT !.active_connections = @ + 1,
                                        !.total_connections = @ + 1,
                                        !.http_connections = @ + 1]]_vars

\* one stream session and one HTTP request have been counted
C31_OneOfEach ==
  /\ STATS.tcp_connections = 1
  /\ STATS.http_connections = 1
  /\ STATS.total_connections = 2
  /\ STATS.active_connections = 2

\* C32: the step in which get_stats runs leaves the registry as it is and
\* returns every counter as it stands at that step, uptime = now - start_time
\* and the average total_bytes_sent / uptime when uptime > 0, else 0; the
\* divisor of the average it computes is never zero.
C32_SnapshotAtomic ==
  [][\A s \in Sessions :
       (pc[s] = "get_stats_locked" /\ pc'[s] # pc[s]) =>
         LET snapshot == loc'[s].body.stats
             uptime == clock - STATS.start_time
         IN /\ STATS' = STATS
            /\ snapshot.stats = STATS
            /\ snapshot.uptime = uptime
            /\ snapshot.avg_bytes_per_second[2] # 0
            /\ snapshot.avg_bytes_per_second =
                 IF uptime > 0 THEN <<STATS.total_bytes_sent, uptime>> ELSE <<0, 1>>]_vars

\* a snapshot taken two ticks after the start, with a byte recorded
C32_AverageComputed ==
  \E s \in Sessions :
    /\ loc[s].body.t = "stats"
    /\ loc[s].body.stats.uptime = 2
    /\ loc[s].body.stats.avg_bytes_per_second = <<1, 2>>

\* C33: the step in which reset_stats runs, made while holding the lock,
\* leaves active_connections, total_connections, total_bytes_sent,
\* tcp_connections and http_connections at 0 and start_time at the current
\* time; the snapshot of the registry as that step leaves it shows every
\* counter at 0.
C33_ResetZeroesAll ==
  [][(oper = "reset_stats_locked" /\ oper' = "idle") =>
       /\ lock = {Operator}
       /\ STATS' = [active_connections |-> 0, total_connections |-> 0,
                    total_bytes_sent |-> 0, start_time |-> clock,
                    tcp_connections |-> 0, http_connections |-> 0]
       /\ LET snapshot == get_stats(STATS', clock')
          IN /\ snapshot.stats.active_connections = 0
             /\ snapshot.stats.total_connections = 0
             /\ snapshot.stats.total_bytes_sent = 0
             /\ snapshot.stats.tcp_connections = 0
             /\ snapshot.stats.http_connections = 0
             /\ snapshot.uptime = 0]_vars

\* a reset at time 2 has cleared the bytes an upload had recorded
C33_ResetAfterUpload ==
  /\ was_reset
  /\ oper = "idle"
  /\ STATS.start_time = 2
  /\ STATS.total_bytes_sent = 0
  /\ STATS.total_connections = 0
  /\ \E s \in Sessions : pc[s] = "done" /\ hist[s].adds # <<>>

\* C35: as long as reset_stats was not called, active_connections equals the
\* number of sessions, stream connections and HTTP GET/POST requests alike,
\* that have incremented and not yet decremented.
C35_ActiveIsInFlight ==
  ~was_reset =>
    STATS.active_connections =
      Cardinality({s \in Sessions : hist[s].incs = 1 /\ hist[s].decs = 0})

\* a stream session and an HTTP request, one closed and one still in flight
C35_OneClosedOneInFlight ==
  /\ ~was_reset
  /\ STATS.active_connections = 1
  /\ \E s, t \in Sessions :
       /\ req[s].kind = "tcp" /\ req[t].kind # "tcp"
       /\ hist[s].incs = 1 /\ hist[t].incs = 1
       /\ hist[s].decs + hist[t].decs = 1

\* the sessions between their increment and their decrement
InFlight == {s \in Sessions : hist[s].incs = 1 /\ hist[s].decs = 0}

\* C36: with reset_stats interleaved among running sessions,
\* active_connections never exceeds the number of sessions in flight, and
\* when every session that was in flight at the latest reset has closed,
\* active_connections equals the number of sessions in flight.
C36_ActiveRecoversAfterReset ==
  /\ STATS.active_connections <= Cardinality(InFlight)
  /\ (was_reset /\ \A s \in Sessions : hist[s].at_reset => hist[s].decs = 1) =>
       STATS.active_connections = Cardinality(InFlight)

\* C37: in a stream UPLOAD flow no payload byte is read before READY was
\* written; each read takes at most min(8192, expected - received) bytes; the
\* bytes received, and the count reported in UPLOAD_COMPLETE, never exceed
\* the expected size; with an expected size of 0 or less no payload byte is
\* read and the reply, if one is written, is UPLOAD_COMPLETE 0 with the
\* digest of the empty sequence.
C37_UploadBounded ==
  /\ [](\A s \in Sessions :
         (req[s].kind = "tcp" /\ loc[s].flow = "UPLOAD") =>
           LET expected == loc[s].expected_size
               o == out[s]
           IN /\ hist[s].moved > 0 => (Len(o) >= 1 /\ o[1] = Ev("READY", <<>>))
              /\ hist[s].moved = Len(loc[s].received_data)
              /\ Len(loc[s].received_data) <= Max(0, expected)
              /\ \A k \in DOMAIN o :
                   o[k].t = "UPLOAD_COMPLETE" =>
                     /\ k = 2
                     /\ o[k].a[1] <= Max(0, expected)
                     /\ expected <= 0 => o[k].a = <<0, sha256(Bytes(<<>>))>>)
  /\ [][\A s \in Sessions :
          (req[s].kind = "tcp" /\ loc[s].flow = "UPLOAD" /\
           hist'[s].moved # hist[s].moved) =>
            /\ pc[s] = "upload_loop"
            /\ hist'[s].moved - hist[s].moved <=
                 Min(UPLOAD_RECV_SIZE, loc[s].expected_size - Len(loc[s].received_data))]_vars

\* UPLOAD 2 answered with UPLOAD_COMPLETE 2 while two more bytes the peer
\* sent are left unread
C37_TwoOfFourRead ==
  \E s \in Sessions :
    /\ req[s].kind = "tcp" /\ pc[s] = "done" /\ loc[s].flow = "UPLOAD"
    /\ loc[s].expected_size = 2
    /\ Len(inbuf[s]) = 2
    /\ out[s] = <<Ev("READY", <<>>),
                  Ev("UPLOAD_COMPLETE", <<2, sha256(Bytes(<<"a", "b">>))>>)>>

\* the session runs an operation that transfers no test payload
NoPayloadOperation(kind, flow) ==
  \/ kind = "tcp" /\ flow \in {"PING", "ERROR"}
  \/ kind = "GET" /\ flow \in {"ping", "stats"}
  \/ kind = "POST" /\ flow \in {"ping_test", "data_integrity"}
  \/ kind = "OPTIONS"

\* C38: a session that runs stream PING, the stream ERROR path, GET /ping,
\* GET /stats, POST type=ping, POST type=data_integrity or OPTIONS calls
\* add_bytes never and no step of it changes total_bytes_sent; an OPTIONS
\* request calls neither increment_connection nor decrement_connection and
\* no step of it changes any connection counter.
C38_NoPayloadNoBytes ==
  /\ [](\A s \in Sessions :
         /\ NoPayloadOperation(req[s].kind, loc[s].flow) => hist[s].adds = <<>>
         /\ (pc[s] # "idle" /\ req[s].kind = "OPTIONS") =>
              hist[s].incs = 0 /\ hist[s].decs = 0)
  /\ [][/\ NoPayloadOperation(req'[1].kind, loc'[1].flow) =>
            STATS'.total_bytes_sent = STATS.total_bytes_sent
      /\ req'[1].kind = "OPTIONS" => STATS' = STATS]_vars

\* a data_integrity POST with a matching hash was answered and counted as a
\* connection, and no byte was recorded
C38_IntegrityAnswered ==
  /\ pc[1] = "done" /\ req[1].kind = "POST" /\ loc[1].flow = "data_integrity"
  /\ hist[1].exc = None
  /\ Len(out[1]) = 2
  /\ STATS.total_connections = 1
  /\ STATS.total_bytes_sent = 0

C34_NoWorkerAfterStop ==
  [][pc[Main] \in {"stop_called", "exit_0"} =>
       ~(pc[1] = "idle" /\ pc'[1] = "increment_connection" /\ req'[1] = TcpReq)]_vars

\* C40: while stop() has not been called the acceptor stays in its loop.
\* The acceptor leaves the loop for good only from an accept() on the socket
\* that stop() has closed.
C40_LoopEndsOnlyAfterStop ==
  [][(pc[Acceptor] # "loop_ended" /\ pc'[Acceptor] = "loop_ended") =>
       pc[Acceptor] = "accept_closed"]_vars

====
